---- MODULE Spec2Model ----
(***************************************************************************)
(* A model of the key-value store of src/mtb_kvstore.c: a log-structured   *)
(* store on a two-area, sector-erasable block device.                      *)
(*                                                                         *)
(* The flash is kept as an array of program units ("cells").  A cell is    *)
(* [rec, i, n]: the first n bytes of the i-th ProgSize-byte slice of the   *)
(* byte image of record rec were programmed, the other bytes of the cell   *)
(* are erased (0xFF).  n = 0 is an erased cell, n = ProgSize a fully       *)
(* programmed one.  Every read of the model goes through the bytes of the  *)
(* cells (ByteAt), so a torn, misplaced or altered record decodes to what  *)
(* its bytes say.                                                          *)
(***************************************************************************)
EXTENDS Integers, Sequences, FiniteSets, TLC

VARIABLES
    flash,   \* the block device: cell index -> cell
    obj,     \* the mtb_kvstore_t instance (RAM), NullObj while not initialised
    up,      \* TRUE between a successful init and deinit / power loss
    last,    \* the last public call: its name, arguments and result
    model,   \* the abstract map: key -> value of the acknowledged mutations
    pend,    \* the abstract map if the call cut by the last power loss took effect
    gcs,     \* compactions started so far (bounded by MaxCompactions)
    losses,  \* the faults (power losses, altered records) so far (bounded by MaxLosses)
    mutex,   \* mtb_kvstore_mutex: 0 when free, else the thread that holds it
    pc       \* thread -> the public call it is in ("idle": none)

vars == <<flash, obj, up, last, model, pend, gcs, losses, mutex, pc>>

----------------------------------------------------------------------------
(* Result codes (src/mtb_kvstore.h:108-130) and a device error.            *)

CY_RSLT_SUCCESS == "SUCCESS"
MTB_KVSTORE_BAD_PARAM_ERROR == "BAD_PARAM"
MTB_KVSTORE_ALIGNMENT_ERROR == "ALIGNMENT"
MTB_KVSTORE_MEM_ALLOC_ERROR == "MEM_ALLOC"
MTB_KVSTORE_INVALID_DATA_ERROR == "INVALID_DATA"
MTB_KVSTORE_ERASED_DATA_ERROR == "ERASED_DATA"
MTB_KVSTORE_ITEM_NOT_FOUND_ERROR == "ITEM_NOT_FOUND"
MTB_KVSTORE_STORAGE_FULL_ERROR == "STORAGE_FULL"
BD_ERROR == "BD_ERROR"

----------------------------------------------------------------------------
(* Program constants.                                                      *)

_MTB_KVSTORE_MIN_BUFF_SIZE == 128
\* 0xFACEFACE, as the four bytes the little-endian target keeps it in
_MTB_KVSTORE_HEADER_MAGIC == <<206, 250, 206, 250>>
_MTB_KVSTORE_FORMAT_VERSION == 0
_MTB_KVSTORE_INITIAL_AREA_VERSION == 1
_MTB_KVSTORE_DELETE_FLAG == 128
_MTB_KVSTORE_NO_FLAG == 0
_MTB_KVSTORE_INIT_MAX_KEYS == 32
_MTB_KVSTORE_AREA_HEADER_OFFSET == 0
_MTB_KVSTORE_CRC_INIT_VAL == 65535
MTB_KVSTORE_MAX_KEY_SIZE == 64
U16 == 65536
\* uint32_t: TLC's integers are 32-bit signed, so a value of 2^30 or more (and a
\* difference that wraps below 0) is kept as 2^30; such a value is only ever
\* compared with the sizes of the model, which are far below it.
Uint32Huge == 1073741824
Uint32(x) == IF x < 0 \/ x > Uint32Huge THEN Uint32Huge ELSE x

\* sizeof(_mtb_kvstore_record_header_t) and the byte offsets of its fields
\* (natural alignment: two bytes of padding follow key_size).
HeaderSize == 20
OffFormat == 4
OffFlags == 5
OffHeaderSize == 6
OffKeySize == 8
OffDataSize == 12
OffCrc == 16
\* sizeof(_mtb_kvstore_area_record_data_t)
AreaDataSize == 4

\* "MTBAREAIDX"
_mtb_kvstore_area_rec_key == <<77, 84, 66, 65, 82, 69, 65, 73, 68, 88>>

----------------------------------------------------------------------------
(* The block device given to init: geometry and erased pattern.  The       *)
(* region given to init is the whole device, so its length is the size of  *)
(* the device in `flash`: DeviceLength, or WideLength for the runs that    *)
(* need room for three records beside the area record.                     *)

StartAddr == 0
DeviceLength == 256
WideLength == 384
ProgSize == 16
Length == Cardinality(DOMAIN flash) * ProgSize
ReadSize == 1
EraseSize == 64
ErasedByte == 255

_MTB_KVSTORE_AREA_SIZE == Length \div 2
NumCells == Length \div ProgSize

----------------------------------------------------------------------------
(* Bounds of the model.                                                    *)

\* compactions in a run without power loss, and in a run with power loss
MaxCompactions == 1
MaxLossCompactions == 2
MaxLosses == 2

\* Keys: "act" and "pad" have the same CRC-16 (173); "b" has another one.
KeyAct == <<97, 99, 116>>
KeyPad == <<112, 97, 100>>
KeyB == <<98>>
Keys == {KeyAct, KeyPad, KeyB}

\* Values: byte strings; with these keys the records take 32 or 48 bytes.
ValEmpty == <<>>
ValOne == <<5>>
ValBig == <<1, 2, 3, 4, 5, 6, 7, 8, 9, 10>>
Values == {ValEmpty, ValBig}

\* the caller's read buffer, and the *size values read is called with
ReadBufferSize == 10
ReadSizes == {0, 1, ReadBufferSize}

----------------------------------------------------------------------------
(* _mtb_kvstore_crc16: CRC-16/CCITT, polynomial 0x1021, MSB first.         *)

RECURSIVE XorBits(_, _)
XorBits(a, b) ==
    IF a = 0 THEN b
    ELSE IF b = 0 THEN a
    ELSE ((a + b) % 2) + 2 * XorBits(a \div 2, b \div 2)

\* the eight shift steps of the inner loop, on the low 16 bits
RECURSIVE crc16_shift(_, _)
crc16_shift(crc, n) ==
    IF n = 0 THEN crc
    ELSE crc16_shift(IF (crc \div 32768) % 2 = 1
                     THEN XorBits((crc * 2) % U16, 4129)
                     ELSE (crc * 2) % U16, n - 1)

\* tables of the two bit operations, computed once
Xor4Table == <<>> @@ [x \in 0..255 |-> XorBits(x \div 16, x % 16)]
Crc16Table == <<>> @@ [x \in 0..255 |-> crc16_shift(x * 256, 8)]

Xor8(a, b) == Xor4Table[(a \div 16) * 16 + (b \div 16)] * 16 + Xor4Table[(a % 16) * 16 + (b % 16)]

\* one iteration of the while loop: crc ^= byte << 8, then eight shifts
crc16_byte(crc, b) ==
    LET t == Crc16Table[Xor8(crc \div 256, b)]
    IN  Xor8(crc % 256, t \div 256) * 256 + (t % 256)

RECURSIVE crc16_from(_, _, _, _)
crc16_from(data, i, length, crc) ==
    IF i > length \/ crc < 0 THEN crc
    ELSE crc16_from(data, i + 1, length, crc16_byte(crc, data[i]))

_mtb_kvstore_crc16(data, length, init_crc) == crc16_from(data, 1, length, init_crc)

\* little-endian bytes of an unsigned integer
LE(val, width) == [j \in 1..width |-> (val \div (256 ^ (j - 1))) % 256]

RECURSIVE FromLE(_, _)
FromLE(bytes, j) ==
    IF j > Len(bytes) THEN 0 ELSE bytes[j] + 256 * FromLE(bytes, j + 1)

\* a uint32_t from its four bytes
FromLE32(bytes) == IF bytes[4] >= 64 THEN Uint32Huge ELSE FromLE(bytes, 1)

----------------------------------------------------------------------------
(* Sizes.                                                                  *)

_mtb_kvstore_align_up(val, size) == (((val - 1) \div size) + 1) * size

_mtb_kvstore_is_aligned(val, size) == val % size = 0

\* a variant that leaves out the padding to the program size
get_record_size_unpadded(key_size, data_size) ==
    Uint32(HeaderSize + key_size + data_size)

_mtb_kvstore_get_record_size(key_size, data_size) ==
    _mtb_kvstore_align_up(Uint32(HeaderSize + key_size + data_size), ProgSize)

_mtb_kvstore_get_area_header_record_size == _mtb_kvstore_get_record_size(Len(_mtb_kvstore_area_rec_key), AreaDataSize)

_mtb_kvstore_is_valid_key(key) == Len(key) > 0 /\ Len(key) < MTB_KVSTORE_MAX_KEY_SIZE

\* buffer_size of mtb_kvstore_init
TransactionBufferSize ==
    LET buffer_size == IF ProgSize >= ReadSize THEN ProgSize ELSE ReadSize
    IN  IF buffer_size < _MTB_KVSTORE_MIN_BUFF_SIZE THEN _mtb_kvstore_align_up(_MTB_KVSTORE_MIN_BUFF_SIZE, ProgSize)
        ELSE buffer_size

----------------------------------------------------------------------------
(* Record images and the bytes of the flash.                               *)

\* the bytes of the payload of an area record (_mtb_kvstore_area_record_data_t)
AreaData(version) == LE(version % U16, 2) \o LE(_MTB_KVSTORE_FORMAT_VERSION, 2)

\* _mtb_kvstore_get_header_crc: the header fields except crc, in order
_mtb_kvstore_get_header_crc(h, init_crc) ==
    LET bytes == h.magic \o LE(h.format_version, 1) \o LE(h.flags, 1)
                 \o LE(h.header_size, 2) \o LE(h.key_size, 2) \o LE(h.data_size, 4)
    IN  _mtb_kvstore_crc16(bytes, Len(bytes), init_crc)

\* the CRC of header, key_size bytes of key and data_size bytes of data
RecordCrcOf(h, key, data) ==
    _mtb_kvstore_crc16(data, Len(data),
        _mtb_kvstore_crc16(key, Len(key),
            _mtb_kvstore_get_header_crc(h, _MTB_KVSTORE_CRC_INIT_VAL)))

\* the header that _mtb_kvstore_setup_record_header fills in, crc left at 0
PlainHeader(flags, key, data) ==
    [magic |-> _MTB_KVSTORE_HEADER_MAGIC, format_version |-> _MTB_KVSTORE_FORMAT_VERSION,
     flags |-> flags, header_size |-> HeaderSize, key_size |-> Len(key),
     data_size |-> Len(data), crc |-> 0]

\* The CRCs of the records the bounded model writes, computed once; any other
\* content is computed on the spot by RecordCrcOf.
VersionWindow == (0..(MaxCompactions + 2)) \cup ((U16 - 3)..(U16 - 1))

KnownRecords ==
    ({_MTB_KVSTORE_NO_FLAG} \X Keys \X Values)
    \cup ({_MTB_KVSTORE_DELETE_FLAG} \X Keys \X {<<>>})
    \cup {<<_MTB_KVSTORE_NO_FLAG, _mtb_kvstore_area_rec_key, AreaData(v)>> : v \in VersionWindow}

KnownCrc == <<>> @@ [x \in KnownRecords |-> RecordCrcOf(PlainHeader(x[1], x[2], x[3]), x[2], x[3])]

_mtb_kvstore_get_record_crc(h, key, data) ==
    IF /\ <<h.flags, key, data>> \in KnownRecords
       /\ [h EXCEPT !.crc = 0] = PlainHeader(h.flags, key, data)
    THEN KnownCrc[<<h.flags, key, data>>]
    ELSE RecordCrcOf(h, key, data)

\* _mtb_kvstore_setup_record_header: the record as it is laid out for programming
_mtb_kvstore_setup_record_header(key, data, flags) ==
    LET h == PlainHeader(flags, key, data)
    IN  [hdr |-> [h EXCEPT !.crc = _mtb_kvstore_get_record_crc(h, key, data)],
         key |-> key, data |-> data]

\* byte p (from 0) of the image of record r: header, key, data, then padding
PadByte == 0
ImageByte(r, p) ==
    LET h == r.hdr
    IN  IF p < OffFormat THEN h.magic[p + 1]
        ELSE IF p < OffFlags THEN h.format_version
        ELSE IF p < OffHeaderSize THEN h.flags
        ELSE IF p < OffKeySize THEN LE(h.header_size, 2)[p - OffHeaderSize + 1]
        ELSE IF p < OffKeySize + 2 THEN LE(h.key_size, 2)[p - OffKeySize + 1]
        ELSE IF p < OffDataSize THEN 0
        ELSE IF p < OffCrc THEN LE(h.data_size, 4)[p - OffDataSize + 1]
        ELSE IF p < HeaderSize THEN LE(h.crc, 4)[p - OffCrc + 1]
        ELSE IF p < HeaderSize + Len(r.key) THEN r.key[p - HeaderSize + 1]
        ELSE IF p < HeaderSize + Len(r.key) + Len(r.data)
             THEN r.data[p - HeaderSize - Len(r.key) + 1]
        ELSE PadByte

ImageSize(r) == HeaderSize + Len(r.key) + Len(r.data)

NullRec == [hdr |-> PlainHeader(0, <<>>, <<>>), key |-> <<>>, data |-> <<>>]
ErasedCell == [rec |-> NullRec, i |-> 0, n |-> 0]
ErasedFlash == [c \in 0..(DeviceLength \div ProgSize - 1) |-> ErasedCell]

\* the cells of the image of r from byte `from` (a multiple of ProgSize), len bytes
ImageCells(r, from, len) ==
    [j \in 1..(len \div ProgSize) |->
        [rec |-> r, i |-> (from \div ProgSize) + j - 1, n |-> ProgSize]]

\* one byte of the device; past the end of the device the read is not defined by
\* the driver contract and is taken as erased
ByteAt(f, addr) ==
    IF addr >= StartAddr + Length THEN ErasedByte
    ELSE LET c == f[(addr - StartAddr) \div ProgSize]
             o == (addr - StartAddr) % ProgSize
         IN  IF o < c.n THEN ImageByte(c.rec, c.i * ProgSize + o) ELSE ErasedByte

\* bd->read
bd_read(f, addr, len) == [j \in 1..len |-> ByteAt(f, addr + j - 1)]

\* The cells from addr on hold exactly one whole record image, from its first
\* byte; then its bytes are those of the image and need no decoding.
Intact(f, addr) ==
    /\ (addr - StartAddr) % ProgSize = 0
    /\ addr < StartAddr + Length
    /\ LET c0 == (addr - StartAddr) \div ProgSize
           r == f[c0].rec
           k == ((ImageSize(r) - 1) \div ProgSize) + 1
       IN  /\ f[c0].n = ProgSize
           /\ f[c0].i = 0
           /\ r.hdr.header_size = HeaderSize
           /\ r.hdr.key_size = Len(r.key)
           /\ r.hdr.data_size = Len(r.data)
           /\ c0 + k <= NumCells
           /\ \A j \in 1..(k - 1) : f[c0 + j] = [rec |-> r, i |-> j, n |-> ProgSize]

DecodeHeader(b) ==
    [magic |-> SubSeq(b, 1, 4),
     format_version |-> b[OffFormat + 1],
     flags |-> b[OffFlags + 1],
     header_size |-> FromLE(SubSeq(b, OffHeaderSize + 1, OffHeaderSize + 2), 1),
     key_size |-> FromLE(SubSeq(b, OffKeySize + 1, OffKeySize + 2), 1),
     data_size |-> FromLE32(SubSeq(b, OffDataSize + 1, OffDataSize + 4)),
     crc |-> FromLE32(SubSeq(b, OffCrc + 1, OffCrc + 4))]

\* the header, the key bytes and the data bytes read at a record address
ReadHeader(f, addr) ==
    IF Intact(f, addr) THEN f[(addr - StartAddr) \div ProgSize].rec.hdr
    ELSE DecodeHeader(bd_read(f, addr, HeaderSize))

ReadKey(f, addr, h) ==
    IF Intact(f, addr) THEN f[(addr - StartAddr) \div ProgSize].rec.key
    ELSE bd_read(f, addr + h.header_size, h.key_size)

ReadData(f, addr, h) ==
    IF Intact(f, addr) THEN f[(addr - StartAddr) \div ProgSize].rec.data
    ELSE bd_read(f, addr + h.header_size + h.key_size, h.data_size)

----------------------------------------------------------------------------
(* Reading records.                                                        *)

\* _mtb_kvstore_validate_key: the key on the flash against the caller's key
_mtb_kvstore_validate_key(f, addr, h, user_key) ==
    IF Len(user_key) # h.key_size THEN MTB_KVSTORE_ITEM_NOT_FOUND_ERROR
    ELSE IF ReadKey(f, addr, h) # user_key THEN MTB_KVSTORE_ITEM_NOT_FOUND_ERROR
    ELSE CY_RSLT_SUCCESS

\* the one element of a set of one element: Only({e(x) : x \in {v}}) is e(v),
\* with v computed once
Only(S) == CHOOSE x \in S : TRUE

\* what _mtb_kvstore_read_record hands back: the result, the header read, the
\* key and data buffers and the value left in *data_size
ReadResult(rc, h, k, d, s) == [rc |-> rc, header |-> h, key |-> k, data |-> d, size |-> s]

\* _mtb_kvstore_read_record from the CRC check on: k and d are the key and the
\* data read from the flash
ReadChecked(h, k, d, has_data, has_size, size_in) ==
    IF h.crc # _mtb_kvstore_get_record_crc([h EXCEPT !.crc = 0], k, d)
        THEN ReadResult(MTB_KVSTORE_INVALID_DATA_ERROR, h, k,
                        IF has_data /\ has_size THEN d ELSE <<>>, size_in)
    ELSE ReadResult(CY_RSLT_SUCCESS, h, k,
                    IF has_data /\ has_size THEN d ELSE <<>>,
                    IF has_size THEN h.data_size ELSE size_in)

\* _mtb_kvstore_read_record from the key validation on
ReadValidated(f, addr, h, key, validate_key, has_data, has_size, size_in) ==
    Only({ IF vk # CY_RSLT_SUCCESS
               THEN ReadResult(vk, h, key, <<>>, size_in)
           ELSE ReadChecked(h, IF validate_key THEN key ELSE ReadKey(f, addr, h),
                            ReadData(f, addr, h), has_data, has_size, size_in)
           : vk \in {IF validate_key THEN _mtb_kvstore_validate_key(f, addr, h, key)
                     ELSE CY_RSLT_SUCCESS} })

\* a variant that does not compare *data_size with the stored size
read_record_any_size(f, addr, h, key, validate_key, has_data, has_size, size_in) ==
    IF h.magic = <<255, 255, 255, 255>> \/ h.magic = <<0, 0, 0, 0>>
        THEN ReadResult(MTB_KVSTORE_ERASED_DATA_ERROR, h, key, <<>>, size_in)
    ELSE IF h.magic # _MTB_KVSTORE_HEADER_MAGIC
        THEN ReadResult(MTB_KVSTORE_INVALID_DATA_ERROR, h, key, <<>>, size_in)
    ELSE IF h.key_size = 0 \/ h.key_size >= MTB_KVSTORE_MAX_KEY_SIZE
        THEN ReadResult(MTB_KVSTORE_INVALID_DATA_ERROR, h, key, <<>>, size_in)
    ELSE ReadValidated(f, addr, h, key, validate_key, has_data, has_size, size_in)

\* _mtb_kvstore_read_record from the header checks on: h is the header read
ReadWithHeader(f, addr, h, key, validate_key, has_data, has_size, size_in) ==
    IF h.magic = <<255, 255, 255, 255>> \/ h.magic = <<0, 0, 0, 0>>
        THEN ReadResult(MTB_KVSTORE_ERASED_DATA_ERROR, h, key, <<>>, size_in)
    ELSE IF h.magic # _MTB_KVSTORE_HEADER_MAGIC
        THEN ReadResult(MTB_KVSTORE_INVALID_DATA_ERROR, h, key, <<>>, size_in)
    ELSE IF h.key_size = 0 \/ h.key_size >= MTB_KVSTORE_MAX_KEY_SIZE
        THEN ReadResult(MTB_KVSTORE_INVALID_DATA_ERROR, h, key, <<>>, size_in)
    ELSE IF has_data /\ has_size /\ size_in < h.data_size
        THEN ReadResult(MTB_KVSTORE_INVALID_DATA_ERROR, h, key, <<>>, h.data_size)
    ELSE ReadValidated(f, addr, h, key, validate_key, has_data, has_size, size_in)

\* _mtb_kvstore_read_record.  key is the caller's key when validate_key, and
\* the key buffer that receives the stored key otherwise; has_data says that
\* a data buffer was passed, has_size that a size pointer was passed (holding
\* size_in).
_mtb_kvstore_read_record(f, area_address, offset, key, validate_key, has_data, has_size, size_in) ==
    ReadWithHeader(f, area_address + offset, ReadHeader(f, area_address + offset),
                   key, validate_key, has_data, has_size, size_in)

\* the version in the data of an area record read with result r
AreaVersion(r) ==
    [rc |-> r.rc,
     version |-> IF r.rc = CY_RSLT_SUCCESS
                 THEN FromLE(SubSeq(r.data \o <<0, 0>>, 1, 2), 1) ELSE 0]

\* _mtb_kvstore_check_area_valid: the area record at offset 0 and its version
_mtb_kvstore_check_area_valid(f, area_address) ==
    AreaVersion(_mtb_kvstore_read_record(f, area_address, 0, _mtb_kvstore_area_rec_key,
                                         TRUE, TRUE, TRUE, AreaDataSize))

\* _mtb_kvstore_find_record_in_ram_table: the linear search from idx on; the
\* table is ordered by falling hash.  Gives the result, the index where the
\* loop stopped and the data size of the record found.
RECURSIVE FindFrom(_, _, _, _, _, _)
FindFrom(f, o, key, key_hash, idx, has_size) ==
    IF idx > Len(o.ram_table)
        THEN [rc |-> MTB_KVSTORE_ITEM_NOT_FOUND_ERROR, idx |-> idx, data_size |-> 0]
    ELSE IF key_hash < o.ram_table[idx].hash
        THEN FindFrom(f, o, key, key_hash, idx + 1, has_size)
    ELSE IF key_hash > o.ram_table[idx].hash
        THEN [rc |-> MTB_KVSTORE_ITEM_NOT_FOUND_ERROR, idx |-> idx, data_size |-> 0]
    ELSE Only({ IF r.rc # MTB_KVSTORE_ITEM_NOT_FOUND_ERROR
                    THEN [rc |-> r.rc, idx |-> idx, data_size |-> r.size]
                ELSE FindFrom(f, o, key, key_hash, idx + 1, has_size)
                : r \in {_mtb_kvstore_read_record(f, o.active_area_addr,
                                                  o.ram_table[idx].offset,
                                                  key, TRUE, FALSE, has_size, 0)} })

\* the outputs of _mtb_kvstore_find_record_in_ram_table
FoundRecord(r, key_hash) ==
    [rc |-> r.rc, ram_tbl_idx |-> r.idx, key_hash |-> key_hash, data_size |-> r.data_size]

_mtb_kvstore_find_record_in_ram_table(f, o, key, has_size) ==
    FoundRecord(FindFrom(f, o, key, _mtb_kvstore_crc16(key, Len(key), _MTB_KVSTORE_CRC_INIT_VAL),
                         1, has_size),
                _mtb_kvstore_crc16(key, Len(key), _MTB_KVSTORE_CRC_INIT_VAL))

----------------------------------------------------------------------------
(* The running call.  A public call is computed on a record m that holds   *)
(* the flash, the instance, the result so far and the fault that the       *)
(* environment injects: budget is the number of program/erase calls that   *)
(* complete before one fails (-1: none fails); the failing call programs   *)
(* the first `tear` bytes of its buffer (or erases `tear` sectors) and     *)
(* returns BD_ERROR.                                                       *)

Machine(f, o, budget, tear, heap, n) ==
    [flash |-> f, obj |-> o, rc |-> CY_RSLT_SUCCESS, budget |-> budget, tear |-> tear,
     heap |-> heap, calls |-> 0, gcs |-> n, reprog |-> FALSE, asserted |-> FALSE,
     unaligned |-> FALSE, active_hit |-> FALSE, cut |-> "none"]

Ok(m) == m.rc = CY_RSLT_SUCCESS
Fail(m, rc) == [m EXCEPT !.rc = rc]
CY_ASSERT(m, cond) == IF cond THEN m ELSE [m EXCEPT !.asserted = TRUE]

CellAt(f, c) == IF c < NumCells THEN f[c] ELSE ErasedCell

\* the cells cs programmed at addr, the first `bytes` bytes of them only
Programmed(f, addr, cs, bytes) ==
    LET c0 == (addr - StartAddr) \div ProgSize
    IN  [c \in DOMAIN f |->
            IF c >= c0 /\ c < c0 + Len(cs) /\ (c - c0) * ProgSize < bytes
            THEN LET new == cs[c - c0 + 1]
                     got == bytes - (c - c0) * ProgSize
                 IN  IF new.n = 0 THEN f[c]
                     ELSE [new EXCEPT !.n = IF got < new.n THEN got ELSE new.n]
            ELSE f[c]]

\* a program or erase call of len bytes at addr reaches into the active area
\* below `end`
HitsActive(m, addr, len, end) ==
    /\ addr < m.obj.active_area_addr + end
    /\ addr + len > m.obj.active_area_addr

\* the length that a caller hands to bd->program
ProgramLength(m, length) ==
    IF _mtb_kvstore_is_aligned(length, ProgSize) THEN m ELSE [m EXCEPT !.unaligned = TRUE]

\* bd->program of the cells cs (Len(cs) * ProgSize bytes) at addr
bd_program(m, addr, cs) ==
    LET c0 == (addr - StartAddr) \div ProgSize
        len == Len(cs) * ProgSize
        hits == \E j \in 1..Len(cs) : cs[j].n > 0 /\ CellAt(m.flash, c0 + j - 1).n > 0
        bytes == IF m.tear < len THEN m.tear ELSE len - 1
        content == IF cs[1].n = 0 THEN 0 ELSE ImageSize(cs[1].rec) - cs[1].i * ProgSize
    IN  IF m.budget = 0
        THEN [m EXCEPT !.flash = Programmed(m.flash, addr, cs, bytes),
                       !.rc = BD_ERROR, !.tear = 0, !.calls = @ + 1,
                       !.reprog = @ \/ (hits /\ bytes > 0),
                       !.unaligned = @ \/ ~_mtb_kvstore_is_aligned(addr, ProgSize),
                       !.active_hit = @ \/ HitsActive(m, addr, len, m.obj.free_space_offset),
                       !.cut = IF bytes = 0 THEN "none"
                               ELSE IF bytes < content THEN "part" ELSE "whole"]
        ELSE [m EXCEPT !.flash = Programmed(m.flash, addr, cs, len),
                       !.budget = IF @ > 0 THEN @ - 1 ELSE @,
                       !.calls = @ + 1, !.reprog = @ \/ hits,
                       !.unaligned = @ \/ ~_mtb_kvstore_is_aligned(addr, ProgSize),
                       !.active_hit = @ \/ HitsActive(m, addr, len, m.obj.free_space_offset)]

Erased(f, addr, len) ==
    [c \in DOMAIN f |->
        IF c * ProgSize >= addr - StartAddr /\ c * ProgSize < addr - StartAddr + len
        THEN ErasedCell ELSE f[c]]

\* bd->erase of len bytes (whole sectors) at addr
bd_erase(m, addr, len) ==
    LET sectors == len \div EraseSize
    IN  IF m.budget = 0
        THEN [m EXCEPT !.flash = Erased(m.flash, addr,
                                        EraseSize * (IF m.tear < sectors THEN m.tear
                                                     ELSE sectors - 1)),
                       !.rc = BD_ERROR, !.tear = 0, !.calls = @ + 1,
                       !.active_hit = @ \/ HitsActive(m, addr, len, _MTB_KVSTORE_AREA_SIZE)]
        ELSE [m EXCEPT !.flash = Erased(m.flash, addr, len),
                       !.budget = IF @ > 0 THEN @ - 1 ELSE @, !.calls = @ + 1,
                       !.active_hit = @ \/ HitsActive(m, addr, len, _MTB_KVSTORE_AREA_SIZE)]

----------------------------------------------------------------------------
(* The RAM table and the consumed size.                                    *)

\* a variant that goes on with the old table when malloc fails
increment_max_keys_ignores_failure(m) ==
    IF m.heap THEN [m EXCEPT !.obj.max_entries = @ * 2] ELSE m

\* _mtb_kvstore_increment_max_keys: malloc of the doubled table
_mtb_kvstore_increment_max_keys(m) ==
    IF m.heap THEN [m EXCEPT !.obj.max_entries = @ * 2]
    ELSE Fail(m, MTB_KVSTORE_MEM_ALLOC_ERROR)

RemoveAt(s, idx) == SubSeq(s, 1, idx - 1) \o SubSeq(s, idx + 1, Len(s))
InsertAt(s, idx, e) == SubSeq(s, 1, idx - 1) \o <<e>> \o SubSeq(s, idx, Len(s))

\* a variant that leaves the entry of an updated key at its old record
update_ram_table_keeps_old(m, operation, info) ==
    CASE operation = "DELETE" ->
            [m EXCEPT !.obj.ram_table = RemoveAt(m.obj.ram_table, info.ram_tbl_idx)]
      [] operation = "ADD" ->
            [m EXCEPT !.obj.ram_table = InsertAt(m.obj.ram_table, info.ram_tbl_idx,
                                                 [hash |-> info.hash, offset |-> info.offset])]
      [] OTHER -> m

\* a variant that inserts the entry of an updated key as if the key were new
update_ram_table_inserts_update(m, operation, info) ==
    CASE operation = "DELETE" ->
            [m EXCEPT !.obj.ram_table = RemoveAt(m.obj.ram_table, info.ram_tbl_idx)]
      [] OTHER ->
            [m EXCEPT !.obj.ram_table = InsertAt(m.obj.ram_table, info.ram_tbl_idx,
                                                 [hash |-> info.hash, offset |-> info.offset])]

\* a variant that puts the entry of a new key behind the last entry
update_ram_table_adds_at_end(m, operation, info) ==
    CASE operation = "DELETE" ->
            [m EXCEPT !.obj.ram_table = RemoveAt(m.obj.ram_table, info.ram_tbl_idx)]
      [] operation = "ADD" ->
            [m EXCEPT !.obj.ram_table = Append(m.obj.ram_table,
                                               [hash |-> info.hash, offset |-> info.offset])]
      [] OTHER ->
            [m EXCEPT !.obj.ram_table[info.ram_tbl_idx] =
                          [hash |-> info.hash, offset |-> info.offset]]

\* _mtb_kvstore_update_ram_table; info = [ram_tbl_idx, hash, offset], indices from 1
_mtb_kvstore_update_ram_table(m, operation, info) ==
    LET t == m.obj.ram_table
        e == [hash |-> info.hash, offset |-> info.offset]
    IN  CASE operation = "DELETE" ->
                LET a == CY_ASSERT(m, info.ram_tbl_idx <= Len(t))
                IN  IF info.ram_tbl_idx <= Len(t)
                    THEN [a EXCEPT !.obj.ram_table = RemoveAt(t, info.ram_tbl_idx)]
                    ELSE a
          [] operation = "ADD" ->
                LET a == CY_ASSERT(m, Len(t) < m.obj.max_entries /\ info.ram_tbl_idx <= Len(t) + 1)
                IN  IF info.ram_tbl_idx <= Len(t) + 1
                    THEN [a EXCEPT !.obj.ram_table = InsertAt(t, info.ram_tbl_idx, e)]
                    ELSE a
          [] OTHER ->
                IF info.ram_tbl_idx <= Len(t)
                THEN [m EXCEPT !.obj.ram_table[info.ram_tbl_idx] = e]
                ELSE CY_ASSERT(m, FALSE)

\* _mtb_kvstore_update_consumed_size; info = [old_record_size, new_record_size]
\* a variant that counts every record as a new one
update_consumed_size_as_add(m, operation, info) ==
    [m EXCEPT !.obj.consumed_size = Uint32(@ + info.new_record_size)]

\* a variant that goes on counting the record of a deleted key
update_consumed_size_keeps_deleted(m, operation, info) ==
    CASE operation = "DELETE" -> m
      [] operation = "UPDATE" ->
            [m EXCEPT !.obj.consumed_size = Uint32(@ - info.old_record_size + info.new_record_size)]
      [] OTHER ->
            [m EXCEPT !.obj.consumed_size = Uint32(@ + info.new_record_size)]

_mtb_kvstore_update_consumed_size(m, operation, info) ==
    CASE operation = "DELETE" ->
            [m EXCEPT !.obj.consumed_size = Uint32(@ - info.old_record_size)]
      [] operation = "UPDATE" ->
            [m EXCEPT !.obj.consumed_size = Uint32(@ - info.old_record_size + info.new_record_size)]
      [] OTHER ->
            [m EXCEPT !.obj.consumed_size = Uint32(@ + info.new_record_size)]

----------------------------------------------------------------------------
(* Writing records.                                                        *)

\* _mtb_kvstore_erase_area: all sectors but the first, then the first
_mtb_kvstore_erase_area(m, area_address) ==
    Only({ IF Ok(m1) THEN bd_erase(m1, area_address, EraseSize) ELSE m1
           : m1 \in {IF EraseSize < _MTB_KVSTORE_AREA_SIZE
                     THEN bd_erase(m, area_address + EraseSize,
                                   _MTB_KVSTORE_AREA_SIZE - EraseSize)
                     ELSE m} })

\* _mtb_kvstore_buffered_write: the image of r goes through the transaction
\* buffer; a full buffer is programmed, the rest is padded to the program
\* size and programmed by the flush of the last call.
RECURSIVE _mtb_kvstore_buffered_write(_, _, _, _)
_mtb_kvstore_buffered_write(m, r, record_address, from) ==
    LET left == ImageSize(r) - from
        len == IF left >= TransactionBufferSize THEN TransactionBufferSize
               ELSE _mtb_kvstore_align_up(left, ProgSize)
    IN  IF ~Ok(m) \/ left <= 0 THEN m
        ELSE _mtb_kvstore_buffered_write(
                 bd_program(ProgramLength(m, len), record_address + from,
                            ImageCells(r, from, len)),
                 r, record_address, from + TransactionBufferSize)

\* variant: the RAM table and the consumed size are updated whatever the
\* result of the write
write_record_updates_first(m, area_address, offset, key, data, operation, ram_tbl_info, size_info) ==
    Only({ IF offset # _MTB_KVSTORE_AREA_HEADER_OFFSET
           THEN [_mtb_kvstore_update_consumed_size(
                     _mtb_kvstore_update_ram_table(Fail(m1, CY_RSLT_SUCCESS), operation,
                                                   ram_tbl_info),
                     operation, size_info) EXCEPT !.rc = m1.rc]
           ELSE m1
           : m1 \in {_mtb_kvstore_buffered_write(
                         m, _mtb_kvstore_setup_record_header(
                                key, data, IF operation = "DELETE" THEN _MTB_KVSTORE_DELETE_FLAG
                                           ELSE _MTB_KVSTORE_NO_FLAG),
                         area_address + offset, 0)} })

\* _mtb_kvstore_write_record
_mtb_kvstore_write_record(m, area_address, offset, key, data, operation, ram_tbl_info, size_info) ==
    Only({ IF ~Ok(m1) THEN m1
           ELSE IF offset # _MTB_KVSTORE_AREA_HEADER_OFFSET
           THEN _mtb_kvstore_update_consumed_size(
                    _mtb_kvstore_update_ram_table(m1, operation, ram_tbl_info),
                    operation, size_info)
           ELSE m1
           : m1 \in {_mtb_kvstore_buffered_write(
                         CY_ASSERT(m, /\ TransactionBufferSize >= HeaderSize
                                      /\ _mtb_kvstore_is_aligned(area_address, ProgSize)
                                      /\ TransactionBufferSize % ProgSize = 0
                                      /\ offset + _mtb_kvstore_get_record_size(Len(key), Len(data))
                                             <= _MTB_KVSTORE_AREA_SIZE),
                         _mtb_kvstore_setup_record_header(
                             key, data, IF operation = "DELETE" THEN _MTB_KVSTORE_DELETE_FLAG
                                        ELSE _MTB_KVSTORE_NO_FLAG),
                         area_address + offset, 0)} })

\* _mtb_kvstore_write_area_record
_mtb_kvstore_write_area_record(m, area_address, area_version) ==
    _mtb_kvstore_write_record(m, area_address, _MTB_KVSTORE_AREA_HEADER_OFFSET,
                              _mtb_kvstore_area_rec_key, AreaData(area_version), "ADD",
                              [ram_tbl_idx |-> 0, hash |-> 0, offset |-> 0],
                              [old_record_size |-> 0, new_record_size |-> 0])

----------------------------------------------------------------------------
(* Garbage collection.                                                     *)

CellsAt(f, addr, len) ==
    [j \in 1..(len \div ProgSize) |-> CellAt(f, (addr - StartAddr) \div ProgSize + j - 1)]

\* the read/program loop of _mtb_kvstore_copy_record
RECURSIVE CopyChunks(_, _, _, _)
CopyChunks(m, read_addr, write_addr, remaining_size) ==
    LET transfer_size == IF TransactionBufferSize >= remaining_size THEN remaining_size
                         ELSE TransactionBufferSize
    IN  IF ~Ok(m) \/ remaining_size <= 0 THEN m
        ELSE CopyChunks(bd_program(ProgramLength(m, transfer_size), write_addr,
                                   CellsAt(m.flash, read_addr, transfer_size)),
                        read_addr + transfer_size, write_addr + transfer_size,
                        remaining_size - transfer_size)

\* _mtb_kvstore_copy_record; the result is [m, next_dst_offset]
_mtb_kvstore_copy_record(m, src_area_addr, src_offset, dst_area_addr, dst_offset) ==
    Only({ IF dst_offset + record_size > _MTB_KVSTORE_AREA_SIZE
           THEN [m |-> Fail(m, MTB_KVSTORE_STORAGE_FULL_ERROR), next_dst_offset |-> dst_offset]
           ELSE [m |-> CopyChunks(m, src_area_addr + src_offset, dst_area_addr + dst_offset,
                                  record_size),
                 next_dst_offset |-> dst_offset + record_size]
           : record_size \in
                 {Only({ _mtb_kvstore_get_record_size(header.key_size, header.data_size)
                         : header \in {ReadHeader(m.flash, src_area_addr + src_offset)} })} })

\* no record to inject: the record_info pointer is NULL
NoRecordInfo ==
    [present |-> FALSE, update |-> FALSE, ram_tbl_idx |-> 0,
     consumed_size_info |-> [old_record_size |-> 0, new_record_size |-> 0],
     key |-> <<>>, data |-> <<>>, key_hash |-> 0]

\* a variant of the copy loop that walks the RAM table from its last entry
\* to its first
RECURSIVE copy_loop_backwards(_, _, _, _)
copy_loop_backwards(m, record_info, idx, dst_offset) ==
    LET at == Len(m.obj.ram_table) + 1 - idx
    IN  IF ~Ok(m) \/ idx > Len(m.obj.ram_table)
        THEN [m |-> m, dst_offset |-> dst_offset]
        ELSE IF record_info.present /\ at = record_info.ram_tbl_idx
        THEN copy_loop_backwards(m, record_info, idx + 1, dst_offset)
        ELSE Only({ IF ~Ok(c.m) THEN [m |-> c.m, dst_offset |-> dst_offset]
                    ELSE copy_loop_backwards(
                             [c.m EXCEPT !.obj.ram_table[at].offset = dst_offset],
                             record_info, idx + 1, c.next_dst_offset)
                    : c \in {_mtb_kvstore_copy_record(m, m.obj.active_area_addr,
                                                      m.obj.ram_table[at].offset,
                                                      m.obj.gc_area_addr, dst_offset)} })

\* the copy loop of _mtb_kvstore_garbage_collection; the result is [m, dst_offset]
RECURSIVE CopyLoop(_, _, _, _)
CopyLoop(m, record_info, idx, dst_offset) ==
    IF ~Ok(m) \/ idx > Len(m.obj.ram_table)
    THEN [m |-> m, dst_offset |-> dst_offset]
    ELSE IF record_info.present /\ idx = record_info.ram_tbl_idx
    THEN CopyLoop(m, record_info, idx + 1, dst_offset)
    ELSE Only({ IF ~Ok(c.m) THEN [m |-> c.m, dst_offset |-> dst_offset]
                ELSE CopyLoop([c.m EXCEPT !.obj.ram_table[idx].offset = dst_offset],
                              record_info, idx + 1, c.next_dst_offset)
                : c \in {_mtb_kvstore_copy_record(m, m.obj.active_area_addr,
                                                  m.obj.ram_table[idx].offset,
                                                  m.obj.gc_area_addr, dst_offset)} })

\* the erase of the spare area, then the copy loop from behind the area record
GcCopy(m, record_info) ==
    Only({ IF Ok(m1)
           THEN CopyLoop(m1, record_info, 1, _mtb_kvstore_get_area_header_record_size)
           ELSE [m |-> m1, dst_offset |-> 0]
           : m1 \in {_mtb_kvstore_erase_area([m EXCEPT !.gcs = @ + 1], m.obj.gc_area_addr)} })

\* the record injected behind the copies: the updated record is written, or
\* the deleted record leaves the RAM table and the consumed size
GcInject(m, record_info, dst_offset) ==
    IF ~Ok(m) \/ ~record_info.present THEN m
    ELSE IF record_info.update
    THEN _mtb_kvstore_write_record(m, m.obj.gc_area_addr, dst_offset,
                                   record_info.key, record_info.data, "UPDATE",
                                   [ram_tbl_idx |-> record_info.ram_tbl_idx,
                                    hash |-> record_info.key_hash,
                                    offset |-> dst_offset],
                                   record_info.consumed_size_info)
    ELSE _mtb_kvstore_update_consumed_size(
             _mtb_kvstore_update_ram_table(
                 m, "DELETE",
                 [ram_tbl_idx |-> record_info.ram_tbl_idx, hash |-> 0, offset |-> 0]),
             "DELETE", record_info.consumed_size_info)

\* a variant of the swap that leaves free_space_offset where it was in the
\* old active area
gc_swap_keeps_offset(m, dst_offset) ==
    IF ~Ok(m) THEN m
    ELSE [m EXCEPT !.obj.active_area_addr = m.obj.gc_area_addr,
                   !.obj.gc_area_addr = m.obj.active_area_addr]

\* the swap of the areas once the area record of the spare area is written
GcSwap(m, dst_offset) ==
    IF ~Ok(m) THEN m
    ELSE [m EXCEPT !.obj.free_space_offset = dst_offset,
                   !.obj.active_area_addr = m.obj.gc_area_addr,
                   !.obj.gc_area_addr = m.obj.active_area_addr]

\* a variant of the end that exchanges the areas before the area record of
\* the spare area is written
gc_commit_swaps_first(m, dst_offset) ==
    IF ~Ok(m) THEN m
    ELSE _mtb_kvstore_write_area_record(
             GcSwap([m EXCEPT !.obj.active_area_version = (@ + 1) % U16], dst_offset),
             m.obj.gc_area_addr, (m.obj.active_area_version + 1) % U16)

\* a variant of the end that writes the new version into the area record and
\* leaves the version of the instance as it was
gc_commit_keeps_version(m, dst_offset) ==
    IF ~Ok(m) THEN m
    ELSE GcSwap(_mtb_kvstore_write_area_record(
                    m, m.obj.gc_area_addr, (m.obj.active_area_version + 1) % U16),
                dst_offset)

\* the end of _mtb_kvstore_garbage_collection: the new version, the area
\* record of the spare area, then the swap
GcCommit(m, dst_offset) ==
    IF ~Ok(m) THEN m
    ELSE GcSwap(_mtb_kvstore_write_area_record(
                    [m EXCEPT !.obj.active_area_version = (@ + 1) % U16],
                    m.obj.gc_area_addr, (m.obj.active_area_version + 1) % U16),
                dst_offset)

\* _mtb_kvstore_garbage_collection
_mtb_kvstore_garbage_collection(m, record_info) ==
    IF /\ record_info.present
       /\ record_info.update
       /\ Uint32(m.obj.consumed_size - record_info.consumed_size_info.old_record_size
                 + record_info.consumed_size_info.new_record_size) > _MTB_KVSTORE_AREA_SIZE
    THEN Fail(m, MTB_KVSTORE_STORAGE_FULL_ERROR)
    ELSE Only({ GcCommit(GcInject(lp.m, record_info, lp.dst_offset),
                         lp.dst_offset
                         + (IF record_info.present /\ record_info.update
                            THEN record_info.consumed_size_info.new_record_size ELSE 0))
                : lp \in {GcCopy(m, record_info)} })

----------------------------------------------------------------------------
(* Start-up: the choice of the active area and the scan of its log.        *)

NullObj ==
    [ram_table |-> <<>>, max_entries |-> 0, active_area_addr |-> 0, gc_area_addr |-> 0,
     free_space_offset |-> 0, active_area_version |-> 0, consumed_size |-> 0]

Area1 == StartAddr
Area2 == StartAddr + _MTB_KVSTORE_AREA_SIZE

SetAreas(m, active, version, gc) ==
    [m EXCEPT !.obj.active_area_addr = active, !.obj.active_area_version = version,
              !.obj.gc_area_addr = gc]

\* a variant that gives a lone valid area 2 the role of the spare area
setup_areas_area2_spare(m, a1, a2) ==
    IF a1.rc = CY_RSLT_SUCCESS /\ a2.rc = CY_RSLT_SUCCESS
    THEN IF a1.version > a2.version \/ a1.version = 0
         THEN SetAreas(m, Area1, a1.version, Area2)
         ELSE SetAreas(m, Area2, a2.version, Area1)
    ELSE IF a1.rc = CY_RSLT_SUCCESS THEN SetAreas(m, Area1, a1.version, Area2)
    ELSE SetAreas(m, Area1, a2.version, Area2)

\* _mtb_kvstore_setup_areas once both area records are read: a1 and a2 are
\* the results of _mtb_kvstore_check_area_valid for area 1 and area 2
SetupAreasFrom(m, a1, a2) ==
    IF a1.rc = CY_RSLT_SUCCESS /\ a2.rc = CY_RSLT_SUCCESS
    THEN IF a1.version > a2.version \/ a1.version = 0
         THEN SetAreas(CY_ASSERT(m, a1.version # a2.version), Area1, a1.version, Area2)
         ELSE SetAreas(CY_ASSERT(m, a1.version # a2.version), Area2, a2.version, Area1)
    ELSE IF a1.rc = CY_RSLT_SUCCESS THEN SetAreas(m, Area1, a1.version, Area2)
    ELSE IF a2.rc = CY_RSLT_SUCCESS THEN SetAreas(m, Area2, a2.version, Area1)
    ELSE Only({ IF Ok(m2) THEN SetAreas(m2, Area1, _MTB_KVSTORE_INITIAL_AREA_VERSION, Area2)
                ELSE m2
                : m2 \in {Only({ IF Ok(m1)
                                 THEN _mtb_kvstore_write_area_record(
                                          m1, Area1, _MTB_KVSTORE_INITIAL_AREA_VERSION)
                                 ELSE m1
                                 : m1 \in {_mtb_kvstore_erase_area(m, Area1)} })} })

\* _mtb_kvstore_setup_areas
_mtb_kvstore_setup_areas(m) ==
    SetupAreasFrom(m, _mtb_kvstore_check_area_valid(m.flash, Area1),
                   _mtb_kvstore_check_area_valid(m.flash, Area2))

\* a variant of the turn that counts a delete record of a key that is not in
\* the RAM table in the consumed size
scan_apply_counts_orphan(m, offset, r, f) ==
    LET record_size == _mtb_kvstore_get_record_size(r.header.key_size, r.header.data_size)
        delete == (r.header.flags \div _MTB_KVSTORE_DELETE_FLAG) % 2 = 1
        found_in_table == f.rc # MTB_KVSTORE_ITEM_NOT_FOUND_ERROR
        operation == IF delete THEN "DELETE" ELSE IF found_in_table THEN "UPDATE" ELSE "ADD"
        m1 == IF operation = "ADD" /\ Len(m.obj.ram_table) >= m.obj.max_entries
              THEN _mtb_kvstore_increment_max_keys(m) ELSE m
        old_record_size == IF operation = "ADD" THEN 0
                           ELSE _mtb_kvstore_get_record_size(Len(r.key), f.data_size)
    IN  IF delete /\ ~found_in_table
        THEN [m EXCEPT !.obj.consumed_size = Uint32(@ + record_size)]
        ELSE IF ~Ok(m1) THEN m1
        ELSE _mtb_kvstore_update_consumed_size(
                 _mtb_kvstore_update_ram_table(
                     m1, operation,
                     [ram_tbl_idx |-> f.ram_tbl_idx, hash |-> f.key_hash, offset |-> offset]),
                 operation,
                 [old_record_size |-> old_record_size, new_record_size |-> record_size])

\* one turn of the loop of _mtb_kvstore_build_ram_table on the record read at offset
ScanApply(m, offset, r, f) ==
    LET record_size == _mtb_kvstore_get_record_size(r.header.key_size, r.header.data_size)
        delete == (r.header.flags \div _MTB_KVSTORE_DELETE_FLAG) % 2 = 1
        found_in_table == f.rc # MTB_KVSTORE_ITEM_NOT_FOUND_ERROR
        operation == IF delete THEN "DELETE" ELSE IF found_in_table THEN "UPDATE" ELSE "ADD"
        m1 == IF operation = "ADD" /\ Len(m.obj.ram_table) >= m.obj.max_entries
              THEN _mtb_kvstore_increment_max_keys(m) ELSE m
        old_record_size == IF operation = "ADD" THEN 0
                           ELSE _mtb_kvstore_get_record_size(Len(r.key), f.data_size)
    IN  IF delete /\ ~found_in_table THEN m
        ELSE IF ~Ok(m1) THEN m1
        ELSE _mtb_kvstore_update_consumed_size(
                 _mtb_kvstore_update_ram_table(
                     m1, operation,
                     [ram_tbl_idx |-> f.ram_tbl_idx, hash |-> f.key_hash, offset |-> offset]),
                 operation,
                 [old_record_size |-> old_record_size, new_record_size |-> record_size])

\* The loop of _mtb_kvstore_build_ram_table from offset on (ScanFrom), in the
\* order of its body: the record is read (ScanRead), looked up in the table
\* built so far (ScanFound), applied, and the loop goes on behind it (ScanNext).
RECURSIVE ScanFrom(_, _)

ScanNext(m, next) ==
    IF ~Ok(m) THEN [m EXCEPT !.obj.free_space_offset = next]
    ELSE ScanFrom(m, next)

ScanFound(m, offset, r, f) ==
    IF f.rc # CY_RSLT_SUCCESS /\ f.rc # MTB_KVSTORE_ITEM_NOT_FOUND_ERROR
    THEN [Fail(m, f.rc) EXCEPT !.obj.free_space_offset = offset]
    ELSE ScanNext(ScanApply(m, offset, r, f),
                  offset + _mtb_kvstore_get_record_size(r.header.key_size,
                                                        r.header.data_size))

\* a variant that ends the scan at a bad record as it does at erased data
scan_ends_at_bad_record(m, offset, r) ==
    IF r.rc = MTB_KVSTORE_ERASED_DATA_ERROR \/ r.rc = MTB_KVSTORE_INVALID_DATA_ERROR
    THEN [m EXCEPT !.obj.free_space_offset = offset]
    ELSE IF r.rc # CY_RSLT_SUCCESS
    THEN [Fail(m, r.rc) EXCEPT !.obj.free_space_offset = offset]
    ELSE ScanFound(m, offset, r,
                   _mtb_kvstore_find_record_in_ram_table(m.flash, m.obj, r.key, TRUE))

ScanRead(m, offset, r) ==
    IF r.rc = MTB_KVSTORE_ERASED_DATA_ERROR
    THEN [m EXCEPT !.obj.free_space_offset = offset]
    ELSE IF r.rc = MTB_KVSTORE_INVALID_DATA_ERROR
    THEN _mtb_kvstore_garbage_collection(m, NoRecordInfo)
    ELSE IF r.rc # CY_RSLT_SUCCESS
    THEN [Fail(m, r.rc) EXCEPT !.obj.free_space_offset = offset]
    ELSE ScanFound(m, offset, r,
                   _mtb_kvstore_find_record_in_ram_table(m.flash, m.obj, r.key, TRUE))

ScanFrom(m, offset) ==
    IF ~(offset + HeaderSize < m.obj.free_space_offset)
    THEN [m EXCEPT !.obj.free_space_offset = offset]
    ELSE ScanRead(m, offset,
                  _mtb_kvstore_read_record(m.flash, m.obj.active_area_addr, offset,
                                           <<>>, FALSE, FALSE, FALSE, 0))

\* _mtb_kvstore_build_ram_table
_mtb_kvstore_build_ram_table(m) ==
    IF ~m.heap
    THEN Fail([m EXCEPT !.obj.ram_table = <<>>,
                        !.obj.max_entries = _MTB_KVSTORE_INIT_MAX_KEYS,
                        !.obj.free_space_offset = _MTB_KVSTORE_AREA_SIZE],
              MTB_KVSTORE_MEM_ALLOC_ERROR)
    ELSE ScanFrom([m EXCEPT !.obj.ram_table = <<>>,
                            !.obj.max_entries = _MTB_KVSTORE_INIT_MAX_KEYS,
                            !.obj.free_space_offset = _MTB_KVSTORE_AREA_SIZE,
                            !.obj.consumed_size = _mtb_kvstore_get_area_header_record_size],
                  _mtb_kvstore_get_area_header_record_size)

----------------------------------------------------------------------------
(* Writing and deleting a key.                                             *)

\* The stages of _mtb_kvstore_write_with_flags, last first.  f is the result
\* of the search of the key in the RAM table, size_info the sizes of the old
\* and of the new record.

\* the operation chosen from the delete flag and the result of the search
OperationOf(delete, f) ==
    IF delete THEN "DELETE"
    ELSE IF f.rc # MTB_KVSTORE_ITEM_NOT_FOUND_ERROR THEN "UPDATE"
    ELSE "ADD"

\* the record passed to the garbage collection: none for an added key
RecordInfoOf(key, data, operation, f, size_info) ==
    IF operation = "ADD" THEN NoRecordInfo
    ELSE [present |-> TRUE, update |-> operation = "UPDATE",
          ram_tbl_idx |-> f.ram_tbl_idx, consumed_size_info |-> size_info,
          key |-> key, data |-> data, key_hash |-> f.key_hash]

\* the record is appended at the free space offset
WriteAppend(m, key, data, operation, f, size_info) ==
    Only({ IF Ok(m1)
           THEN [m1 EXCEPT !.obj.free_space_offset = @ + size_info.new_record_size]
           ELSE m1
           : m1 \in {_mtb_kvstore_write_record(
                         CY_ASSERT(m, m.obj.free_space_offset + size_info.new_record_size
                                          <= _MTB_KVSTORE_AREA_SIZE),
                         m.obj.active_area_addr, m.obj.free_space_offset, key, data, operation,
                         [ram_tbl_idx |-> f.ram_tbl_idx, hash |-> f.key_hash,
                          offset |-> m.obj.free_space_offset],
                         size_info)} })

\* after the garbage collection, if one ran: it has done the update or the
\* delete of a key of the table, and its failure ends the call
WriteCompacted(m, key, data, operation, f, size_info, ran) ==
    IF ran /\ (~Ok(m) \/ f.rc # MTB_KVSTORE_ITEM_NOT_FOUND_ERROR) THEN m
    ELSE WriteAppend(m, key, data, operation, f, size_info)

\* variant: the garbage collection runs before the check of the consumed size
write_sized_compacts_first(m, key, data, operation, f, size_info) ==
    IF ~Ok(m) THEN m
    ELSE IF /\ operation \in {"UPDATE", "ADD"}
            /\ Uint32(m.obj.consumed_size - size_info.old_record_size
                      + size_info.new_record_size) > _MTB_KVSTORE_AREA_SIZE
    THEN Only({ IF Ok(m1) THEN Fail(m1, MTB_KVSTORE_STORAGE_FULL_ERROR) ELSE m1
                : m1 \in {_mtb_kvstore_garbage_collection(m, NoRecordInfo)} })
    ELSE WriteCompacted(
             IF m.obj.free_space_offset + size_info.new_record_size > _MTB_KVSTORE_AREA_SIZE
             THEN _mtb_kvstore_garbage_collection(
                      m, RecordInfoOf(key, data, operation, f, size_info))
             ELSE m,
             key, data, operation, f, size_info,
             m.obj.free_space_offset + size_info.new_record_size > _MTB_KVSTORE_AREA_SIZE)

\* variant: no garbage collection, the store is full when the record does
\* not fit behind the free space offset
write_sized_without_compaction(m, key, data, operation, f, size_info) ==
    IF ~Ok(m) THEN m
    ELSE IF m.obj.free_space_offset + size_info.new_record_size > _MTB_KVSTORE_AREA_SIZE
    THEN Fail(m, MTB_KVSTORE_STORAGE_FULL_ERROR)
    ELSE WriteAppend(m, key, data, operation, f, size_info)

\* variant: a delete needs room for its record behind the free space offset
write_sized_delete_needs_room(m, key, data, operation, f, size_info) ==
    IF ~Ok(m) THEN m
    ELSE IF \/ /\ operation \in {"UPDATE", "ADD"}
               /\ Uint32(m.obj.consumed_size - size_info.old_record_size
                         + size_info.new_record_size) > _MTB_KVSTORE_AREA_SIZE
            \/ /\ operation = "DELETE"
               /\ m.obj.free_space_offset + size_info.new_record_size > _MTB_KVSTORE_AREA_SIZE
    THEN Fail(m, MTB_KVSTORE_STORAGE_FULL_ERROR)
    ELSE WriteCompacted(
             IF m.obj.free_space_offset + size_info.new_record_size > _MTB_KVSTORE_AREA_SIZE
             THEN _mtb_kvstore_garbage_collection(
                      m, RecordInfoOf(key, data, operation, f, size_info))
             ELSE m,
             key, data, operation, f, size_info,
             m.obj.free_space_offset + size_info.new_record_size > _MTB_KVSTORE_AREA_SIZE)

\* the check of the consumed size, then the garbage collection when the
\* record does not fit behind the free space offset
WriteSized(m, key, data, operation, f, size_info) ==
    IF ~Ok(m) THEN m
    ELSE IF /\ operation \in {"UPDATE", "ADD"}
            /\ Uint32(m.obj.consumed_size - size_info.old_record_size
                      + size_info.new_record_size) > _MTB_KVSTORE_AREA_SIZE
    THEN Fail(m, MTB_KVSTORE_STORAGE_FULL_ERROR)
    ELSE WriteCompacted(
             IF m.obj.free_space_offset + size_info.new_record_size > _MTB_KVSTORE_AREA_SIZE
             THEN _mtb_kvstore_garbage_collection(
                      m, RecordInfoOf(key, data, operation, f, size_info))
             ELSE m,
             key, data, operation, f, size_info,
             m.obj.free_space_offset + size_info.new_record_size > _MTB_KVSTORE_AREA_SIZE)

\* variant: the delete of a key that is not in the table reports it
write_found_reports_missing(m, key, data, delete, f, operation) ==
    IF f.rc # CY_RSLT_SUCCESS /\ f.rc # MTB_KVSTORE_ITEM_NOT_FOUND_ERROR THEN Fail(m, f.rc)
    ELSE IF delete /\ f.rc = MTB_KVSTORE_ITEM_NOT_FOUND_ERROR THEN Fail(m, f.rc)
    ELSE WriteSized(IF operation = "ADD" /\ Len(m.obj.ram_table) >= m.obj.max_entries
                    THEN _mtb_kvstore_increment_max_keys(m) ELSE m,
                    key, data, operation, f,
                    [old_record_size |-> IF operation = "ADD" THEN 0
                                         ELSE _mtb_kvstore_get_record_size(Len(key), f.data_size),
                     new_record_size |-> _mtb_kvstore_get_record_size(Len(key), Len(data))])

\* from the result of the search on
WriteFound(m, key, data, delete, f, operation) ==
    IF f.rc # CY_RSLT_SUCCESS /\ f.rc # MTB_KVSTORE_ITEM_NOT_FOUND_ERROR THEN Fail(m, f.rc)
    ELSE IF delete /\ f.rc = MTB_KVSTORE_ITEM_NOT_FOUND_ERROR THEN m
    ELSE WriteSized(IF operation = "ADD" /\ Len(m.obj.ram_table) >= m.obj.max_entries
                    THEN _mtb_kvstore_increment_max_keys(m) ELSE m,
                    key, data, operation, f,
                    [old_record_size |-> IF operation = "ADD" THEN 0
                                         ELSE _mtb_kvstore_get_record_size(Len(key), f.data_size),
                     new_record_size |-> _mtb_kvstore_get_record_size(Len(key), Len(data))])

\* what the search stage hands on
WriteSearched(m, key, data, delete, f) ==
    WriteFound(m, key, data, delete, f, OperationOf(delete, f))

\* _mtb_kvstore_write_with_flags
_mtb_kvstore_write_with_flags(m, key, data, delete) ==
    WriteSearched(m, key, data, delete,
                  _mtb_kvstore_find_record_in_ram_table(m.flash, m.obj, key, TRUE))

----------------------------------------------------------------------------
(* The public API.                                                         *)

\* mtb_kvstore_deinit: the buffers are freed, the instance is not usable
mtb_kvstore_deinit(m) == [m EXCEPT !.obj = NullObj]

\* mtb_kvstore_init from the allocation of the buffers on
InitAreas(m) ==
    Only({ IF Ok(m2) THEN m2 ELSE mtb_kvstore_deinit(m2)
           : m2 \in {Only({ IF Ok(m1) THEN _mtb_kvstore_build_ram_table(m1) ELSE m1
                            : m1 \in {_mtb_kvstore_setup_areas(m)} })} })

\* mtb_kvstore_init from the parameter checks on
InitChecked(m) ==
    IF Length = 0 THEN Fail(m, MTB_KVSTORE_BAD_PARAM_ERROR)
    ELSE IF \/ ~_mtb_kvstore_is_aligned(StartAddr, EraseSize)
            \/ ~_mtb_kvstore_is_aligned(StartAddr + Length, EraseSize)
    THEN Fail(m, MTB_KVSTORE_ALIGNMENT_ERROR)
    ELSE IF (Length \div EraseSize) = 0 \/ (Length \div EraseSize) % 2 # 0
    THEN Fail(m, MTB_KVSTORE_ALIGNMENT_ERROR)
    ELSE IF ~m.heap THEN mtb_kvstore_deinit(Fail(m, MTB_KVSTORE_MEM_ALLOC_ERROR))
    ELSE InitAreas(m)

\* mtb_kvstore_init on the device f
mtb_kvstore_init(f, budget, tear, heap, n) ==
    InitChecked(Machine(f, NullObj, budget, tear, heap, n))

\* mtb_kvstore_write
mtb_kvstore_write(m, key, data) ==
    IF ~_mtb_kvstore_is_valid_key(key) THEN Fail(m, MTB_KVSTORE_BAD_PARAM_ERROR)
    ELSE _mtb_kvstore_write_with_flags(m, key, data, FALSE)

\* what mtb_kvstore_read hands back
ReadOut(r) == [rc |-> r.rc, data |-> r.data, size |-> r.size]

\* mtb_kvstore_read once the key is searched in the RAM table: fr is the result
ReadFound(f, o, key, has_data, has_size, size_in, fr) ==
    IF fr.rc # CY_RSLT_SUCCESS
    THEN [rc |-> fr.rc, data |-> <<>>, size |-> size_in]
    ELSE ReadOut(_mtb_kvstore_read_record(f, o.active_area_addr,
                                          o.ram_table[fr.ram_tbl_idx].offset,
                                          key, TRUE, has_data, has_size, size_in))

\* a variant that refuses a call without a buffer
read_requires_buffer(f, o, key, has_data, has_size, size_in) ==
    IF ~_mtb_kvstore_is_valid_key(key) \/ ~has_data \/ ~has_size \/ size_in = 0
    THEN [rc |-> MTB_KVSTORE_BAD_PARAM_ERROR, data |-> <<>>, size |-> size_in]
    ELSE ReadFound(f, o, key, has_data, has_size, size_in,
                   _mtb_kvstore_find_record_in_ram_table(f, o, key, FALSE))

\* mtb_kvstore_read; has_data: a buffer is passed, has_size: a size pointer is
\* passed and holds size_in.  Gives [rc, data, size].
mtb_kvstore_read(f, o, key, has_data, has_size, size_in) ==
    IF ~_mtb_kvstore_is_valid_key(key)
    THEN [rc |-> MTB_KVSTORE_BAD_PARAM_ERROR, data |-> <<>>, size |-> size_in]
    ELSE IF has_data /\ (~has_size \/ size_in = 0)
    THEN [rc |-> MTB_KVSTORE_BAD_PARAM_ERROR, data |-> <<>>, size |-> size_in]
    ELSE ReadFound(f, o, key, has_data, has_size, size_in,
                   _mtb_kvstore_find_record_in_ram_table(f, o, key, FALSE))

\* mtb_kvstore_delete
mtb_kvstore_delete(m, key) == _mtb_kvstore_write_with_flags(m, key, <<>>, TRUE)

\* mtb_kvstore_reset
mtb_kvstore_reset(m) ==
    Only({ IF Ok(m1) THEN [m1 EXCEPT !.obj.consumed_size = m1.obj.free_space_offset] ELSE m1
           : m1 \in {_mtb_kvstore_garbage_collection([m EXCEPT !.obj.ram_table = <<>>],
                                                     NoRecordInfo)} })

\* mtb_kvstore_size and mtb_kvstore_remaining_size
mtb_kvstore_size(o) == o.consumed_size
mtb_kvstore_remaining_size(o) == Uint32(_MTB_KVSTORE_AREA_SIZE - o.consumed_size)

----------------------------------------------------------------------------
(* The abstract map and what a caller sees.                                *)

None == <<-1>>     \* the key is absent (read gives ITEM_NOT_FOUND)
Broken == <<-2>>   \* read gives any other error

KeyEmpty == <<>>
KeyLong == [j \in 1..MTB_KVSTORE_MAX_KEY_SIZE |-> 97]
BadKeys == {KeyEmpty, KeyLong}

EmptyMap == [k \in Keys |-> None]

\* the value a caller sees in the result r of mtb_kvstore_read
Seen(r) ==
    IF r.rc = CY_RSLT_SUCCESS THEN r.data
    ELSE IF r.rc = MTB_KVSTORE_ITEM_NOT_FOUND_ERROR THEN None
    ELSE Broken

\* what mtb_kvstore_read gives for every key, with a buffer that is large enough
Contents(f, o) ==
    [k \in Keys |-> Seen(mtb_kvstore_read(f, o, k, TRUE, TRUE, ReadBufferSize))]

\* the padded size of the record of key k in the map mp, 0 when absent
LiveSize(mp, k) ==
    IF mp[k] = None THEN 0 ELSE _mtb_kvstore_get_record_size(Len(k), Len(mp[k]))

RECURSIVE SumLive(_, _)
SumLive(mp, ks) ==
    IF ks = {} THEN 0
    ELSE LET k == CHOOSE x \in ks : TRUE IN LiveSize(mp, k) + SumLive(mp, ks \ {k})

\* the last call, as the caller and the device saw it
Called(op, key, data, m) ==
    [op |-> op, key |-> key, data |-> data, rc |-> m.rc, calls |-> m.calls,
     size |-> 0, fso |-> 0, cut |-> "none", gc |-> m.gcs > gcs]

\* the threads of the application that call the store
Threads == {1, 2}

----------------------------------------------------------------------------
(* Initial state: the instance is not initialised; the region is either    *)
(* all erased (a new part) or as 65534 calls of mtb_kvstore_reset on an    *)
(* empty store leave it: the area record of version 0xFFFF in area 1 and   *)
(* of version 0xFFFE in area 2.                                            *)

AreaRecord(version) ==
    _mtb_kvstore_setup_record_header(_mtb_kvstore_area_rec_key, AreaData(version),
                                     _MTB_KVSTORE_NO_FLAG)

AgedFlash ==
    LET n == _mtb_kvstore_get_area_header_record_size
        c1 == ImageCells(AreaRecord(U16 - 1), 0, n)
        c2 == ImageCells(AreaRecord(U16 - 2), 0, n)
    IN  Programmed(Programmed(ErasedFlash, Area1, c1, n),
                   StartAddr + DeviceLength \div 2, c2, n)

Init ==
    /\ flash \in {ErasedFlash, AgedFlash}
    /\ obj = NullObj
    /\ up = FALSE
    /\ last = [op |-> "none", key |-> <<>>, data |-> <<>>, rc |-> CY_RSLT_SUCCESS,
               calls |-> 0, size |-> 0, fso |-> 0, cut |-> "none", gc |-> FALSE]
    /\ model = EmptyMap
    /\ pend = EmptyMap
    /\ gcs = 0
    /\ losses = 0
    /\ mutex = 0
    /\ pc = [t \in Threads |-> "idle"]

----------------------------------------------------------------------------
(* The calls of the application, run to completion without a fault.        *)

Quiet(f, o) == Machine(f, o, -1, 0, TRUE, gcs)

DoInit ==
    /\ ~up
    /\ \E m \in {mtb_kvstore_init(flash, -1, 0, TRUE, gcs)} :
           /\ flash' = m.flash
           /\ obj' = m.obj
           /\ up' = Ok(m)
           /\ gcs' = m.gcs
           /\ model' = IF Ok(m) THEN Contents(m.flash, m.obj) ELSE model
           /\ pend' = model'
           /\ last' = Called("init", <<>>, <<>>, m)
    /\ UNCHANGED losses
    /\ UNCHANGED <<mutex, pc>>

DoWrite(key, data, limit) ==
    /\ up
    /\ \E m \in {mtb_kvstore_write(Quiet(flash, obj), key, data)} :
           /\ m.gcs <= limit
           /\ flash' = m.flash
           /\ obj' = m.obj
           /\ gcs' = m.gcs
           /\ model' = IF Ok(m) THEN [model EXCEPT ![key] = data] ELSE model
           /\ pend' = model'
           /\ last' = Called("write", key, data, m)
           /\ UNCHANGED <<up, losses>>
    /\ UNCHANGED <<mutex, pc>>

DoDelete(key, limit) ==
    /\ up
    /\ \E m \in {mtb_kvstore_delete(Quiet(flash, obj), key)} :
           /\ m.gcs <= limit
           /\ flash' = m.flash
           /\ obj' = m.obj
           /\ gcs' = m.gcs
           /\ model' = IF Ok(m) /\ key \in Keys THEN [model EXCEPT ![key] = None] ELSE model
           /\ pend' = model'
           /\ last' = Called("delete", key, <<>>, m)
           /\ UNCHANGED <<up, losses>>
    /\ UNCHANGED <<mutex, pc>>

DoReset(limit) ==
    /\ up
    /\ \E m \in {mtb_kvstore_reset(Quiet(flash, obj))} :
           /\ m.gcs <= limit
           /\ flash' = m.flash
           /\ obj' = m.obj
           /\ gcs' = m.gcs
           /\ model' = IF Ok(m) THEN EmptyMap ELSE model
           /\ pend' = model'
           /\ last' = Called("reset", <<>>, <<>>, m)
           /\ UNCHANGED <<up, losses>>
    /\ UNCHANGED <<mutex, pc>>

\* mtb_kvstore_read with a data buffer or NULL (has_data) and a size pointer
\* or NULL (has_size, *size = size_in on entry)
DoRead(key, has_data, has_size, size_in) ==
    /\ up
    /\ \E r \in {mtb_kvstore_read(flash, obj, key, has_data, has_size, size_in)} :
           last' = [op |-> "read", key |-> key, data |-> r.data, rc |-> r.rc, calls |-> 0,
                    size |-> r.size, fso |-> 0, cut |-> "none", gc |-> FALSE,
                    has_data |-> has_data, has_size |-> has_size, size_in |-> size_in]
    /\ UNCHANGED <<flash, obj, up, model, pend, gcs, losses>>
    /\ UNCHANGED <<mutex, pc>>

DoDeinit ==
    /\ up
    /\ obj' = mtb_kvstore_deinit(Quiet(flash, obj)).obj
    /\ up' = FALSE
    /\ last' = [op |-> "deinit", key |-> <<>>, data |-> <<>>, rc |-> CY_RSLT_SUCCESS,
                calls |-> 0, size |-> mtb_kvstore_size(obj), fso |-> obj.free_space_offset,
                cut |-> "none", gc |-> FALSE, after |-> <<last.op, last.rc, last.key>>,
                active |-> obj.active_area_addr]
    /\ UNCHANGED <<flash, model, pend, gcs, losses>>
    /\ UNCHANGED <<mutex, pc>>

Next ==
    \/ DoInit
    \/ \E key \in Keys, data \in Values : DoWrite(key, data, MaxCompactions)
    \/ \E key \in Keys : DoDelete(key, MaxCompactions)
    \/ DoReset(MaxCompactions)
    \/ DoDeinit

Spec == Init /\ [][Next]_vars


----------------------------------------------------------------------------
(* Calls with arguments of every kind, on a store of one key.              *)

ArgKeys == {KeyAct}

NextArgs ==
    \/ DoInit
    \/ \E key \in ArgKeys \cup BadKeys, data \in Values : DoWrite(key, data, MaxCompactions)
    \/ \E key \in ArgKeys \cup BadKeys : DoDelete(key, MaxCompactions)
    \/ \E key \in ArgKeys \cup BadKeys, has_data \in BOOLEAN, has_size \in BOOLEAN,
          size_in \in ReadSizes : DoRead(key, has_data, has_size, size_in)
    \/ DoDeinit

SpecArgs == Init /\ [][NextArgs]_vars

----------------------------------------------------------------------------
(* Power loss.  The supply fails while a call runs: the program or erase   *)
(* call number `budget` of the call is cut (a program call leaves the      *)
(* first `tear` bytes of its buffer programmed), the call never returns    *)
(* and the RAM is gone.  PowerOff is the loss between two calls.           *)

Tears == {0, HeaderSize, TransactionBufferSize - 1}

LossKeys == {KeyAct, KeyB}

Cut(op, key, data, m) ==
    [op |-> op, key |-> key, data |-> data, rc |-> m.rc, calls |-> m.calls,
     size |-> 0, fso |-> 0, cut |-> m.cut, gc |-> m.gcs > gcs]

LoseWrite(key, data, limit) ==
    /\ up
    /\ losses = 0
    /\ \E budget \in 0..(mtb_kvstore_write(Quiet(flash, obj), key, data).calls - 1), tear \in Tears :
         \E m \in {mtb_kvstore_write(Machine(flash, obj, budget, tear, TRUE, gcs), key, data)} :
             /\ m.rc = BD_ERROR
             /\ m.gcs <= limit
             /\ flash' = m.flash
             /\ gcs' = m.gcs
             /\ pend' = [model EXCEPT ![key] = data]
             /\ last' = Cut("write", key, data, m)
    /\ obj' = NullObj
    /\ up' = FALSE
    /\ losses' = losses + 1
    /\ UNCHANGED model
    /\ UNCHANGED <<mutex, pc>>

LoseDelete(key, limit) ==
    /\ up
    /\ losses = 0
    /\ \E budget \in 0..(mtb_kvstore_delete(Quiet(flash, obj), key).calls - 1), tear \in Tears :
         \E m \in {mtb_kvstore_delete(Machine(flash, obj, budget, tear, TRUE, gcs), key)} :
             /\ m.rc = BD_ERROR
             /\ m.gcs <= limit
             /\ flash' = m.flash
             /\ gcs' = m.gcs
             /\ pend' = [model EXCEPT ![key] = None]
             /\ last' = Cut("delete", key, <<>>, m)
    /\ obj' = NullObj
    /\ up' = FALSE
    /\ losses' = losses + 1
    /\ UNCHANGED model
    /\ UNCHANGED <<mutex, pc>>

LoseReset(limit) ==
    /\ up
    /\ losses = 0
    /\ \E budget \in 0..(mtb_kvstore_reset(Quiet(flash, obj)).calls - 1), tear \in Tears :
         \E m \in {mtb_kvstore_reset(Machine(flash, obj, budget, tear, TRUE, gcs))} :
             /\ m.rc = BD_ERROR
             /\ m.gcs <= limit
             /\ flash' = m.flash
             /\ gcs' = m.gcs
             /\ pend' = EmptyMap
             /\ last' = Cut("reset", <<>>, <<>>, m)
    /\ obj' = NullObj
    /\ up' = FALSE
    /\ losses' = losses + 1
    /\ UNCHANGED model
    /\ UNCHANGED <<mutex, pc>>

\* the loss during mtb_kvstore_init: the call cut before it stays the last one
LoseInit(limit) ==
    /\ ~up
    /\ losses < MaxLosses
    /\ \E budget \in 0..(mtb_kvstore_init(flash, -1, 0, TRUE, gcs).calls - 1), tear \in Tears :
         \E m \in {mtb_kvstore_init(flash, budget, tear, TRUE, gcs)} :
             /\ m.rc = BD_ERROR
             /\ m.gcs <= limit + 1
             /\ flash' = m.flash
             /\ gcs' = m.gcs
    /\ losses' = losses + 1
    /\ UNCHANGED <<obj, up, last, model, pend>>
    /\ UNCHANGED <<mutex, pc>>

PowerOff ==
    /\ up
    /\ losses = 0
    /\ obj' = NullObj
    /\ up' = FALSE
    /\ pend' = model
    /\ last' = [op |-> "off", key |-> <<>>, data |-> <<>>, rc |-> CY_RSLT_SUCCESS,
                calls |-> 0, size |-> 0, fso |-> 0, cut |-> "none", gc |-> FALSE]
    /\ losses' = losses + 1
    /\ UNCHANGED <<flash, model, gcs>>
    /\ UNCHANGED <<mutex, pc>>

NextLoss ==
    \/ DoInit
    \/ losses = 0 /\ \E key \in LossKeys, data \in Values : DoWrite(key, data, MaxLossCompactions)
    \/ losses = 0 /\ \E key \in LossKeys : DoDelete(key, MaxLossCompactions)
    \/ losses = 0 /\ DoReset(MaxLossCompactions)
    \/ \E key \in LossKeys, data \in Values : LoseWrite(key, data, MaxLossCompactions)
    \/ \E key \in LossKeys : LoseDelete(key, MaxLossCompactions)
    \/ LoseReset(MaxLossCompactions)
    \/ LoseInit(MaxLossCompactions)
    \/ PowerOff

SpecLoss == Init /\ [][NextLoss]_vars

----------------------------------------------------------------------------
(* Properties of the calls run to completion.                              *)

\* C1: while the instance runs and no device call has failed, after every
\* write, delete and reset (with the compactions they start) each key reads
\* as the abstract map says: a key whose last successful change was a write
\* of V gives success, the bytes of V and *size = Len(V); a key never
\* written, deleted or reset away gives ITEM_NOT_FOUND.
C1_ReadReturnsLastWrite ==
    up => \A k \in Keys :
             \E r \in {mtb_kvstore_read(flash, obj, k, TRUE, TRUE, ReadBufferSize)} :
                IF model[k] = None THEN r.rc = MTB_KVSTORE_ITEM_NOT_FOUND_ERROR
                ELSE /\ r.rc = CY_RSLT_SUCCESS
                     /\ r.data = model[k]
                     /\ r.size = Len(model[k])

\* after a compaction, one key holds the long value and another the empty one
C1_Witness ==
    /\ up
    /\ gcs >= 1
    /\ last.op = "write"
    /\ last.rc = CY_RSLT_SUCCESS
    /\ model[KeyB] = ValBig
    /\ model[KeyAct] = ValEmpty

\* C5: after successful write, delete and reset calls, mtb_kvstore_deinit
\* followed by mtb_kvstore_init on the same region succeeds and gives the
\* same value for every key, the same mtb_kvstore_size and the same
\* free_space_offset as before the restart.
C5_RestartRoundTrip ==
    [][(last.op = "deinit" /\ last'.op = "init")
          => /\ last'.rc = CY_RSLT_SUCCESS
             /\ Contents(flash', obj') = model
             /\ mtb_kvstore_size(obj') = last.size
             /\ obj'.free_space_offset = last.fso]_vars

\* C6: after a successful mtb_kvstore_delete of a key, mtb_kvstore_read of
\* the key gives ITEM_NOT_FOUND; it goes on doing so through every later
\* call but a successful write of that key, compactions included, and after
\* mtb_kvstore_deinit and mtb_kvstore_init.
C6_DeletedStaysDeleted ==
    [][/\ (last'.op = "delete" /\ last'.rc = CY_RSLT_SUCCESS /\ last'.key \in Keys)
            => Contents(flash', obj')[last'.key] = None
       /\ (up /\ up')
            => \A k \in Keys :
                  (/\ model[k] = None
                   /\ ~(last'.op = "write" /\ last'.key = k /\ last'.rc = CY_RSLT_SUCCESS))
                     => Contents(flash', obj')[k] = None
       /\ (/\ last.op = "deinit"
           /\ last.after[1] = "delete"
           /\ last.after[2] = CY_RSLT_SUCCESS
           /\ last.after[3] \in Keys
           /\ last'.op = "init")
            => /\ last'.rc = CY_RSLT_SUCCESS
               /\ Contents(flash', obj')[last.after[3]] = None]_vars

\* the consumed size of the store once key holds data: the consumed size
\* less the padded size of the record that key has now, plus that of the new one
SizeWith(key, data) ==
    obj.consumed_size - LiveSize(model, key) + _mtb_kvstore_get_record_size(Len(key), Len(data))

\* C7: a write whose record would take the consumed size (less the record the
\* key has now) over the size of an area returns STORAGE_FULL and changes
\* nothing: no program, no erase, the same region, the same instance (so the
\* same size() and free space offset) and the same contents.
C7_StorageFullChangesNothing ==
    [][(/\ up
        /\ last'.op = "write"
        /\ last'.key \in Keys
        /\ SizeWith(last'.key, last'.data) > _MTB_KVSTORE_AREA_SIZE)
          => /\ last'.rc = MTB_KVSTORE_STORAGE_FULL_ERROR
             /\ last'.calls = 0
             /\ flash' = flash
             /\ obj' = obj
             /\ Contents(flash', obj') = model]_vars

\* a write was refused for want of space while the store holds two keys
C7_Witness ==
    /\ up
    /\ last.op = "write"
    /\ last.rc = MTB_KVSTORE_STORAGE_FULL_ERROR
    /\ model[last.key] = None
    /\ Cardinality({k \in Keys : model[k] # None}) = 2
    /\ obj.free_space_offset = obj.consumed_size

\* C8: a write whose record keeps the consumed size (less the record the key
\* has now) within the size of an area succeeds and the key reads as the
\* value written; it runs one garbage collection exactly when the record
\* does not fit behind the free space offset, and none otherwise.
C8_NoStorageFullWhileDataFits ==
    [][(/\ up
        /\ last'.op = "write"
        /\ last'.key \in Keys
        /\ SizeWith(last'.key, last'.data) <= _MTB_KVSTORE_AREA_SIZE)
          => /\ last'.rc = CY_RSLT_SUCCESS
             /\ gcs' = gcs + (IF obj.free_space_offset
                                    + _mtb_kvstore_get_record_size(Len(last'.key), Len(last'.data))
                                  > _MTB_KVSTORE_AREA_SIZE THEN 1 ELSE 0)
             /\ Contents(flash', obj') = [model EXCEPT ![last'.key] = last'.data]
             /\ obj'.consumed_size = SizeWith(last'.key, last'.data)]_vars

\* a write has succeeded by a garbage collection of an area that held dead
\* records: the store is left with a free space offset equal to the consumed size
C8_Witness ==
    /\ up
    /\ last.op = "write"
    /\ last.rc = CY_RSLT_SUCCESS
    /\ last.gc
    /\ gcs = 1
    /\ model[last.key] = last.data
    /\ obj.free_space_offset = obj.consumed_size

\* C9: the delete of a key that is not in the store returns success and does
\* nothing: no program, no erase, the same region and the same instance (RAM
\* table, consumed size, free space offset).
C9_DeleteOfAbsentKey ==
    [][(/\ up
        /\ last'.op = "delete"
        /\ last'.key \in Keys
        /\ model[last'.key] = None)
          => /\ last'.rc = CY_RSLT_SUCCESS
             /\ last'.calls = 0
             /\ flash' = flash
             /\ obj' = obj]_vars

\* the delete of an absent key has returned on a store that holds another key
C9_Witness ==
    /\ up
    /\ last.op = "delete"
    /\ last.rc = CY_RSLT_SUCCESS
    /\ last.calls = 0
    /\ model[last.key] = None
    /\ \E k \in Keys : model[k] # None

\* C10: mtb_kvstore_delete with a key that is empty or as long as
\* MTB_KVSTORE_MAX_KEY_SIZE returns BAD_PARAM and changes nothing, as
\* mtb_kvstore_write does.
C10_MutationsValidateKey ==
    [][(/\ up
        /\ last'.op \in {"write", "delete"}
        /\ last'.key \in BadKeys)
          => /\ last'.rc = MTB_KVSTORE_BAD_PARAM_ERROR
             /\ flash' = flash
             /\ obj' = obj]_vars

----------------------------------------------------------------------------
(* Properties of power loss.                                               *)

\* C2: after a power loss the next mtb_kvstore_init succeeds and the contents
\* are those before the call that was cut or those after it; when the loss
\* cut a program call that left bytes of the header, key or data of its
\* record unprogrammed, they are those before the call that was cut.
C2_InterruptedRecordAbsent ==
    [][(~up /\ losses > 0 /\ last'.op = "init")
          => /\ last'.rc = CY_RSLT_SUCCESS
             /\ Contents(flash', obj') \in {model, pend}
             /\ last.cut = "part" => Contents(flash', obj') = model]_vars

\* C3: after a power loss the next mtb_kvstore_init succeeds and every key
\* reads as the calls acknowledged before the loss left it, but for the key
\* of the call that was cut, which may read as that call would have left it.
C3_AcknowledgedCallsSurvive ==
    [][(~up /\ losses > 0 /\ last'.op = "init")
          => /\ last'.rc = CY_RSLT_SUCCESS
             /\ \A k \in Keys :
                   \/ Contents(flash', obj')[k] = model[k]
                   \/ Contents(flash', obj')[k] = pend[k]]_vars

\* C4: after a power loss in a write or delete that ran a garbage
\* collection, the next mtb_kvstore_init succeeds and the contents are, as a
\* whole, those before that call or those after it.
C4_CompactionAllOrNothing ==
    [][(/\ ~up
        /\ losses > 0
        /\ last.op \in {"write", "delete"}
        /\ last.gc
        /\ last'.op = "init")
          => /\ last'.rc = CY_RSLT_SUCCESS
             /\ \/ Contents(flash', obj') = model
                \/ Contents(flash', obj') = pend]_vars

----------------------------------------------------------------------------
(* Properties of reset, size and read.                                     *)

\* C11: after a successful mtb_kvstore_reset the size is the padded size of
\* the area record and no key can be read, and after mtb_kvstore_deinit and
\* mtb_kvstore_init the store is still empty with that size.
C11_ResetLeavesEmptyStore ==
    [][/\ (last'.op = "reset" /\ last'.rc = CY_RSLT_SUCCESS)
            => /\ mtb_kvstore_size(obj') = _mtb_kvstore_get_area_header_record_size
               /\ Contents(flash', obj') = EmptyMap
       /\ (/\ last.op = "deinit"
           /\ last.after = <<"reset", CY_RSLT_SUCCESS, <<>>>>
           /\ last'.op = "init")
            => /\ last'.rc = CY_RSLT_SUCCESS
               /\ mtb_kvstore_size(obj') = _mtb_kvstore_get_area_header_record_size
               /\ Contents(flash', obj') = EmptyMap]_vars

\* C12: while the instance is initialised and no device call has failed,
\* mtb_kvstore_size is the padded size of the area record plus the padded
\* sizes of exactly the keys that can be read, it never exceeds the size of
\* an area, and mtb_kvstore_remaining_size is the area size minus it.
C12_SizeIsLiveData ==
    up => /\ mtb_kvstore_size(obj)
                = _mtb_kvstore_get_area_header_record_size + SumLive(Contents(flash, obj), Keys)
          /\ SumLive(Contents(flash, obj), Keys) = SumLive(model, Keys)
          /\ mtb_kvstore_size(obj) <= _MTB_KVSTORE_AREA_SIZE
          /\ mtb_kvstore_remaining_size(obj) = _MTB_KVSTORE_AREA_SIZE - mtb_kvstore_size(obj)

\* a key was updated and another deleted across a compaction, data remains
C12_Witness ==
    /\ up
    /\ gcs >= 1
    /\ last.op = "delete"
    /\ last.rc = CY_RSLT_SUCCESS
    /\ last.key \in Keys
    /\ mtb_kvstore_size(obj) > _mtb_kvstore_get_area_header_record_size
    /\ mtb_kvstore_remaining_size(obj) < _MTB_KVSTORE_AREA_SIZE - _mtb_kvstore_get_area_header_record_size

\* C13: mtb_kvstore_read of a valid key with data = NULL and size = NULL
\* returns success exactly when the key is live and ITEM_NOT_FOUND otherwise,
\* and the call leaves the flash (no program, no erase) and the instance (RAM
\* table, consumed_size, free_space_offset, active and spare area) unchanged.
C13_ReadProbesExistence ==
    [][(/\ last'.op = "read"
        /\ ~last'.has_data
        /\ ~last'.has_size
        /\ last'.key \in ArgKeys)
          => /\ last'.rc = (IF model[last'.key] # None THEN CY_RSLT_SUCCESS
                            ELSE MTB_KVSTORE_ITEM_NOT_FOUND_ERROR)
             /\ last'.data = <<>>
             /\ flash' = flash
             /\ obj' = obj]_vars

\* the probe found a key that holds the long value
C13_Witness ==
    /\ up
    /\ last.op = "read"
    /\ ~last.has_data
    /\ ~last.has_size
    /\ last.key \in ArgKeys
    /\ last.rc = CY_RSLT_SUCCESS
    /\ model[last.key] = ValBig

\* C14: mtb_kvstore_read with a buffer and *size smaller than the size of the
\* stored value returns INVALID_DATA, leaves the stored size in *size and
\* changes neither the flash nor the instance; with a buffer and size = NULL
\* or *size = 0 it returns BAD_PARAM.
C14_ReadWithSmallBuffer ==
    [][(last'.op = "read" /\ last'.has_data)
          => /\ (~last'.has_size \/ last'.size_in = 0)
                   => last'.rc = MTB_KVSTORE_BAD_PARAM_ERROR
             /\ (/\ last'.has_size
                 /\ last'.size_in > 0
                 /\ last'.key \in ArgKeys
                 /\ model[last'.key] # None
                 /\ last'.size_in < Len(model[last'.key]))
                   => /\ last'.rc = MTB_KVSTORE_INVALID_DATA_ERROR
                      /\ last'.size = Len(model[last'.key])
                      /\ last'.data = <<>>
                      /\ flash' = flash
                      /\ obj' = obj]_vars

\* a value of 10 bytes was read into a buffer of 1 byte
C14_Witness ==
    /\ up
    /\ last.op = "read"
    /\ last.has_data
    /\ last.has_size
    /\ last.size_in = 1
    /\ last.key \in ArgKeys
    /\ model[last.key] = ValBig
    /\ last.rc = MTB_KVSTORE_INVALID_DATA_ERROR
    /\ last.size = Len(ValBig)

----------------------------------------------------------------------------
(* The choice of the active area.  mtb_kvstore_init is run on regions as   *)
(* compactions and power losses leave them: each area holds the area       *)
(* record of some version, is erased, or holds an area record of which     *)
(* only the first program unit was written.  The first area record is     *)
(* version 1 in area 1 and each compaction writes the active version plus  *)
(* one into the other area, so area 1 holds odd versions and area 2 even   *)
(* ones, and two valid area records have successive versions modulo 2^16.  *)

AreaErased == 0 - 1
AreaTorn == 0 - 2
OddVersions == {1, 3, U16 - 1}
EvenVersions == {0, 2, U16 - 2}

\* the flash f with area `area` in state st
WithArea(f, area, st) ==
    IF st = AreaErased THEN f
    ELSE Programmed(f, area,
                    ImageCells(AreaRecord(IF st = AreaTorn THEN 1 ELSE st), 0,
                               _mtb_kvstore_get_area_header_record_size),
                    IF st = AreaTorn THEN ProgSize
                    ELSE _mtb_kvstore_get_area_header_record_size)

AreaPairs ==
    { p \in (OddVersions \cup {AreaErased, AreaTorn})
            \X (EvenVersions \cup {AreaErased, AreaTorn}) :
        (p[1] >= 0 /\ p[2] >= 0)
            => (p[2] = (p[1] + 1) % U16 \/ p[1] = (p[2] + 1) % U16) }

InitRegion ==
    /\ flash \in { WithArea(WithArea(ErasedFlash, Area1, p[1]),
                            StartAddr + DeviceLength \div 2, p[2]) : p \in AreaPairs }
    /\ obj = NullObj
    /\ up = FALSE
    /\ last = [op |-> "none", key |-> <<>>, data |-> <<>>, rc |-> CY_RSLT_SUCCESS,
               calls |-> 0, size |-> 0, fso |-> 0, cut |-> "none", gc |-> FALSE]
    /\ model = EmptyMap
    /\ pend = EmptyMap
    /\ gcs = 0
    /\ losses = 0
    /\ mutex = 0
    /\ pc = [t \in Threads |-> "idle"]

NextRegion ==
    \/ DoInit
    \/ \E data \in Values : DoWrite(KeyAct, data, MaxCompactions)
    \/ DoReset(MaxCompactions)
    \/ DoDeinit

SpecRegion == InitRegion /\ [][NextRegion]_vars

\* C15: when mtb_kvstore_init finds a valid area record in both areas, the
\* active area is the one with the higher version, but an area of version 0
\* is chosen over the other one whatever its version, be the version 0 in
\* area 1 or in area 2.
C15_VersionZeroWins ==
    [][(/\ ~up
        /\ last'.op = "init"
        /\ _mtb_kvstore_check_area_valid(flash, Area1).rc = CY_RSLT_SUCCESS
        /\ _mtb_kvstore_check_area_valid(flash, Area2).rc = CY_RSLT_SUCCESS)
          => /\ last'.rc = CY_RSLT_SUCCESS
             /\ obj'.active_area_addr
                  = (IF _mtb_kvstore_check_area_valid(flash, Area1).version = 0 THEN Area1
                     ELSE IF _mtb_kvstore_check_area_valid(flash, Area2).version = 0 THEN Area2
                     ELSE IF _mtb_kvstore_check_area_valid(flash, Area1).version
                               > _mtb_kvstore_check_area_valid(flash, Area2).version THEN Area1
                     ELSE Area2)]_vars

\* C16: after compactions, the one that takes the area version from 0xFFFF
\* to 0 included, mtb_kvstore_deinit followed by mtb_kvstore_init succeeds,
\* takes as active the area that the last compaction wrote (the one that was
\* active before the restart) and every key reads the value it had.
C16_RestartAfterCompactions ==
    [][(/\ last.op = "deinit"
        /\ last'.op = "init"
        /\ gcs >= 1)
          => /\ last'.rc = CY_RSLT_SUCCESS
             /\ obj'.active_area_addr = last.active
             /\ Contents(flash', obj') = model]_vars

\* C17: when mtb_kvstore_init finds a valid area record in exactly one area,
\* that area becomes the active one and the other the spare one; when it
\* finds none, area 1 is erased and gets the area record of version 1, area
\* 1 is active and area 2 spare, no key can be read and mtb_kvstore_size is
\* the padded size of the area record.  (Stated for an init whose scan of
\* the active area starts no compaction.)
C17_OneOrNoValidArea ==
    [][(~up /\ last'.op = "init" /\ gcs' = gcs)
          => /\ (/\ _mtb_kvstore_check_area_valid(flash, Area1).rc = CY_RSLT_SUCCESS
                 /\ _mtb_kvstore_check_area_valid(flash, Area2).rc # CY_RSLT_SUCCESS)
                   => /\ last'.rc = CY_RSLT_SUCCESS
                      /\ obj'.active_area_addr = Area1
                      /\ obj'.gc_area_addr = Area2
                      /\ obj'.active_area_version
                           = _mtb_kvstore_check_area_valid(flash, Area1).version
                      /\ flash' = flash
             /\ (/\ _mtb_kvstore_check_area_valid(flash, Area1).rc # CY_RSLT_SUCCESS
                 /\ _mtb_kvstore_check_area_valid(flash, Area2).rc = CY_RSLT_SUCCESS)
                   => /\ last'.rc = CY_RSLT_SUCCESS
                      /\ obj'.active_area_addr = Area2
                      /\ obj'.gc_area_addr = Area1
                      /\ obj'.active_area_version
                           = _mtb_kvstore_check_area_valid(flash, Area2).version
                      /\ flash' = flash
             /\ (/\ _mtb_kvstore_check_area_valid(flash, Area1).rc # CY_RSLT_SUCCESS
                 /\ _mtb_kvstore_check_area_valid(flash, Area2).rc # CY_RSLT_SUCCESS)
                   => /\ last'.rc = CY_RSLT_SUCCESS
                      /\ obj'.active_area_addr = Area1
                      /\ obj'.gc_area_addr = Area2
                      /\ obj'.active_area_version = _MTB_KVSTORE_INITIAL_AREA_VERSION
                      /\ _mtb_kvstore_check_area_valid(flash', Area1)
                           = [rc |-> CY_RSLT_SUCCESS,
                              version |-> _MTB_KVSTORE_INITIAL_AREA_VERSION]
                      /\ \A c \in (_mtb_kvstore_get_area_header_record_size \div ProgSize)
                                  ..((_MTB_KVSTORE_AREA_SIZE \div ProgSize) - 1) :
                             flash'[c] = ErasedCell
                      /\ Contents(flash', obj') = EmptyMap
                      /\ mtb_kvstore_size(obj') = _mtb_kvstore_get_area_header_record_size]_vars

\* the instance runs on area 2, found as the only area with a valid record
C17_Witness ==
    /\ up
    /\ last.op = "init"
    /\ last.rc = CY_RSLT_SUCCESS
    /\ gcs = 0
    /\ obj.active_area_addr = Area2
    /\ obj.gc_area_addr = Area1
    /\ _mtb_kvstore_check_area_valid(flash, Area1).rc # CY_RSLT_SUCCESS
    /\ _mtb_kvstore_check_area_valid(flash, Area2).rc = CY_RSLT_SUCCESS

----------------------------------------------------------------------------
(* Altered media.  One bit of a record of the active area changes on the   *)
(* device, in a field of the header, in the key or in the data, while the  *)
(* instance runs or after mtb_kvstore_deinit.                              *)

\* v with the bit of weight `bit` flipped
Flip(v, bit) == IF (v \div bit) % 2 = 0 THEN v + bit ELSE v - bit

Alterations ==
    {"magic", "format_version", "flags", "header_size", "key_size", "data_size",
     "crc", "crc_high", "key", "data"}

\* the record r with one bit of the part `what` flipped
Altered(r, what) ==
    CASE what = "magic" -> [r EXCEPT !.hdr.magic[1] = Flip(@, 1)]
      [] what = "format_version" -> [r EXCEPT !.hdr.format_version = Flip(@, 1)]
      [] what = "flags" -> [r EXCEPT !.hdr.flags = Flip(@, _MTB_KVSTORE_DELETE_FLAG)]
      [] what = "header_size" -> [r EXCEPT !.hdr.header_size = Flip(@, 1)]
      [] what = "key_size" -> [r EXCEPT !.hdr.key_size = Flip(@, 1)]
      [] what = "data_size" -> [r EXCEPT !.hdr.data_size = Flip(@, 1)]
      [] what = "crc" -> [r EXCEPT !.hdr.crc = Flip(@, 1)]
      [] what = "crc_high" -> [r EXCEPT !.hdr.crc = Flip(@, U16)]
      [] what = "key" -> [r EXCEPT !.key[Len(r.key)] = Flip(@, 1)]
      [] OTHER -> [r EXCEPT !.data[1] = Flip(@, 1)]

\* the flash f with every cell of record r replaced by the same cell of record q
WithRecord(f, r, q) ==
    [c \in 0..(NumCells - 1) |-> IF f[c].rec = r /\ f[c].n > 0 THEN [f[c] EXCEPT !.rec = q]
                                 ELSE f[c]]

\* the map that the records of `area` from offset `from` up to offset `to`
\* make of the map mp, the records taken in the order of the log
RECURSIVE Replay(_, _, _, _, _)
Replay(f, area, from, to, mp) ==
    IF from >= to THEN mp
    ELSE Only({ Replay(f, area,
                       from + _mtb_kvstore_get_record_size(Len(r.key), Len(r.data)), to,
                       IF r.key \notin Keys THEN mp
                       ELSE IF (r.hdr.flags \div _MTB_KVSTORE_DELETE_FLAG) % 2 = 1
                            THEN [mp EXCEPT ![r.key] = None]
                       ELSE [mp EXCEPT ![r.key] = r.data])
                : r \in {f[(area + from - StartAddr) \div ProgSize].rec} })

\* the record at `offset` of the active area is altered in its part `what`
Corrupt(offset, what) ==
    /\ losses = 0
    /\ up \/ last.op = "deinit"
    /\ \E area \in {IF up THEN obj.active_area_addr ELSE last.active},
          end \in {IF up THEN obj.free_space_offset ELSE last.fso} :
         /\ offset < end
         /\ Intact(flash, area + offset)
         /\ \E r \in {flash[(area + offset - StartAddr) \div ProgSize].rec} :
              /\ what = "data" => Len(r.data) > 0
              /\ \A c \in 0..(NumCells - 1) :
                    (flash[c].rec = r /\ flash[c].n > 0)
                       => /\ c >= (area + offset - StartAddr) \div ProgSize
                          /\ c < (area + offset - StartAddr
                                    + _mtb_kvstore_get_record_size(Len(r.key), Len(r.data)))
                                 \div ProgSize
              /\ flash' = WithRecord(flash, r, Altered(r, what))
              /\ last' = [op |-> "corrupt", key |-> r.key, data |-> r.data,
                          rc |-> CY_RSLT_SUCCESS, calls |-> 0, size |-> 0, fso |-> end,
                          cut |-> "none", gc |-> FALSE, offset |-> offset, what |-> what,
                          area |-> area,
                          live |-> up /\ \E j \in 1..Len(obj.ram_table) :
                                               obj.ram_table[j].offset = offset]
    /\ losses' = losses + 1
    /\ UNCHANGED <<obj, up, model, pend, gcs>>
    /\ UNCHANGED <<mutex, pc>>

RecordOffsets ==
    { c * ProgSize : c \in (_mtb_kvstore_get_area_header_record_size \div ProgSize)
                           ..((_MTB_KVSTORE_AREA_SIZE \div ProgSize) - 1) }

NextMedia ==
    \/ DoInit /\ gcs' <= MaxCompactions + 1
    \/ losses = 0 /\ \E key \in LossKeys, data \in Values : DoWrite(key, data, MaxCompactions)
    \/ losses = 0 /\ \E key \in LossKeys : DoDelete(key, MaxCompactions)
    \/ losses > 0 /\ \E key \in LossKeys : DoRead(key, TRUE, TRUE, ReadBufferSize)
    \/ DoDeinit
    \/ \E offset \in RecordOffsets, what \in Alterations : Corrupt(offset, what)

SpecMedia == Init /\ [][NextMedia]_vars

\* C18: when the scan of mtb_kvstore_init reaches a record that fails the
\* checks of _mtb_kvstore_read_record (a magic that is neither the record
\* magic nor erased, a key size of 0, a CRC that does not match), init
\* compacts into the spare area and succeeds, and the keys then read as the
\* records before the bad one say: the bad record and all records after it
\* have no effect.  The scan reaches the record when the area that holds it
\* is the one _mtb_kvstore_setup_areas makes active.
C18_ScanStopsAtBadRecord ==
    [][(/\ ~up
        /\ last.op = "corrupt"
        /\ last'.op = "init"
        /\ _mtb_kvstore_setup_areas(Quiet(flash, NullObj)).obj.active_area_addr = last.area)
          => /\ last'.rc = CY_RSLT_SUCCESS
             /\ gcs' = gcs + 1
             /\ obj'.active_area_addr # last.area
             /\ obj'.gc_area_addr = last.area
             /\ Contents(flash', obj')
                  = Replay(flash, last.area, _mtb_kvstore_get_area_header_record_size,
                           last.offset, EmptyMap)]_vars

\* init has run on a region that was never near the version wrap: the area
\* that is now the spare one holds a good record and behind it the altered
\* one, and a key written before the altered record is read
C18_Witness ==
    /\ up
    /\ last.op = "init"
    /\ last.rc = CY_RSLT_SUCCESS
    /\ losses = 1
    /\ obj.active_area_version < U16 - 3
    /\ \E k \in LossKeys : model[k] # None
    /\ \E offset \in RecordOffsets :
          /\ offset > _mtb_kvstore_get_area_header_record_size
          /\ flash[(obj.gc_area_addr + offset - StartAddr) \div ProgSize].n = ProgSize
          /\ _mtb_kvstore_read_record(flash, obj.gc_area_addr, offset, <<>>,
                                      FALSE, FALSE, FALSE, 0).rc
                = MTB_KVSTORE_INVALID_DATA_ERROR

\* C19: after one bit of the record of a live key is flipped on the device
\* (in a header field, in the key, in the data or in the stored CRC), the
\* next mtb_kvstore_read of that key on the running instance returns
\* INVALID_DATA: neither success nor ITEM_NOT_FOUND nor any other result.
C19_AlteredRecordIsInvalid ==
    [][(/\ up
        /\ last.op = "corrupt"
        /\ last.live
        /\ last'.op = "read"
        /\ last'.key = last.key)
          => last'.rc = MTB_KVSTORE_INVALID_DATA_ERROR]_vars

----------------------------------------------------------------------------
(* Threads.  With CY_RTOS_AWARE a public call takes mtb_kvstore_mutex with *)
(* _mtb_kvstore_lock, works on the instance and gives the mutex back with  *)
(* _mtb_kvstore_unlock; other threads run between these steps.             *)
(* mtb_kvstore_reset is taken in two steps, before and after the           *)
(* assignment of consumed_size that follows the compaction.                *)
(* mtb_kvstore_size and mtb_kvstore_remaining_size call neither            *)
(* _mtb_kvstore_lock nor _mtb_kvstore_unlock.                              *)

LockedCalls == {"write", "delete", "reset", "read"}

\* _mtb_kvstore_lock: the thread gets the mutex when it is free
Lock(t, call) ==
    /\ up
    /\ pc[t] = "idle"
    /\ mutex = 0
    /\ mutex' = t
    /\ pc' = [pc EXCEPT ![t] = call]
    /\ UNCHANGED <<flash, obj, up, last, model, pend, gcs, losses>>

\* _mtb_kvstore_unlock and return
Unlock(t) ==
    /\ mutex' = 0
    /\ pc' = [pc EXCEPT ![t] = "idle"]

\* mtb_kvstore_write behind its _mtb_kvstore_lock
LockedWrite(t, key, data) ==
    /\ pc[t] = "write"
    /\ mutex = t
    /\ \E m \in {mtb_kvstore_write(Quiet(flash, obj), key, data)} :
           /\ m.gcs <= MaxCompactions
           /\ flash' = m.flash
           /\ obj' = m.obj
           /\ gcs' = m.gcs
           /\ model' = IF Ok(m) THEN [model EXCEPT ![key] = data] ELSE model
           /\ pend' = model'
           /\ last' = Called("write", key, data, m)
    /\ Unlock(t)
    /\ UNCHANGED <<up, losses>>

\* mtb_kvstore_delete behind its _mtb_kvstore_lock
LockedDelete(t, key) ==
    /\ pc[t] = "delete"
    /\ mutex = t
    /\ \E m \in {mtb_kvstore_delete(Quiet(flash, obj), key)} :
           /\ m.gcs <= MaxCompactions
           /\ flash' = m.flash
           /\ obj' = m.obj
           /\ gcs' = m.gcs
           /\ model' = IF Ok(m) THEN [model EXCEPT ![key] = None] ELSE model
           /\ pend' = model'
           /\ last' = Called("delete", key, <<>>, m)
    /\ Unlock(t)
    /\ UNCHANGED <<up, losses>>

\* mtb_kvstore_read behind its _mtb_kvstore_lock
LockedRead(t, key) ==
    /\ pc[t] = "read"
    /\ mutex = t
    /\ \E r \in {mtb_kvstore_read(flash, obj, key, TRUE, TRUE, ReadBufferSize)} :
           last' = [op |-> "read", key |-> key, data |-> r.data, rc |-> r.rc, calls |-> 0,
                    size |-> r.size, fso |-> 0, cut |-> "none", gc |-> FALSE,
                    has_data |-> TRUE, has_size |-> TRUE, size_in |-> ReadBufferSize]
    /\ Unlock(t)
    /\ UNCHANGED <<flash, obj, up, model, pend, gcs, losses>>

\* mtb_kvstore_reset from the memset of the RAM table to the return of
\* _mtb_kvstore_garbage_collection
LockedResetCompact(t) ==
    /\ pc[t] = "reset"
    /\ mutex = t
    /\ \E m \in {_mtb_kvstore_garbage_collection(
                     [Quiet(flash, obj) EXCEPT !.obj.ram_table = <<>>], NoRecordInfo)} :
           /\ m.gcs <= MaxCompactions
           /\ Ok(m)
           /\ flash' = m.flash
           /\ obj' = m.obj
           /\ gcs' = m.gcs
    /\ pc' = [pc EXCEPT ![t] = "reset_compacted"]
    /\ UNCHANGED <<up, last, model, pend, losses, mutex>>

\* mtb_kvstore_reset from obj->consumed_size = obj->free_space_offset on
LockedResetFinish(t) ==
    /\ pc[t] = "reset_compacted"
    /\ mutex = t
    /\ obj' = [obj EXCEPT !.consumed_size = obj.free_space_offset]
    /\ model' = EmptyMap
    /\ pend' = model'
    /\ last' = [op |-> "reset", key |-> <<>>, data |-> <<>>, rc |-> CY_RSLT_SUCCESS,
                calls |-> 0, size |-> 0, fso |-> 0, cut |-> "none", gc |-> FALSE]
    /\ Unlock(t)
    /\ UNCHANGED <<flash, up, gcs, losses>>

\* mtb_kvstore_size (which = "size") or mtb_kvstore_remaining_size called by
\* thread t: one read of consumed_size, the mutex is not touched
UnlockedSize(t, which) ==
    /\ up
    /\ pc[t] = "idle"
    /\ last' = [op |-> which, key |-> <<>>, data |-> <<>>, rc |-> CY_RSLT_SUCCESS,
                calls |-> 0, fso |-> 0, cut |-> "none", gc |-> FALSE, thread |-> t,
                size |-> IF which = "size" THEN mtb_kvstore_size(obj)
                         ELSE mtb_kvstore_remaining_size(obj)]
    /\ UNCHANGED <<flash, obj, up, model, pend, gcs, losses, mutex, pc>>

NextThreads ==
    \/ DoInit
    \/ \E t \in Threads, call \in LockedCalls : Lock(t, call)
    \/ \E t \in Threads, data \in Values : LockedWrite(t, KeyAct, data)
    \/ \E t \in Threads : LockedDelete(t, KeyAct)
    \/ \E t \in Threads : LockedRead(t, KeyAct)
    \/ \E t \in Threads : LockedResetCompact(t)
    \/ \E t \in Threads : LockedResetFinish(t)
    \/ \E t \in Threads, which \in {"size", "remaining_size"} : UnlockedSize(t, which)
    \/ mutex = 0 /\ DoDeinit

SpecThreads == Init /\ [][NextThreads]_vars

\* C20: every public call takes the mutex of the instance before it reads or
\* changes the instance, so that no thread sees consumed_size, the RAM table
\* or the areas while the call of another thread is in progress: when a
\* thread gets the result of mtb_kvstore_size or mtb_kvstore_remaining_size,
\* no other thread holds the mutex.
C20_SizeReadUnderLock ==
    [][(last'.op \in {"size", "remaining_size"} /\ last' # last)
          => (mutex = 0 \/ mutex = last'.thread)]_vars

----------------------------------------------------------------------------
(* Device errors.  The program or erase call number `budget` of a public   *)
(* call returns an error, having programmed the first `tear` bytes of its  *)
(* buffer (or erased `tear` sectors); the public call returns the error    *)
(* and the instance stays in use.  A read that fails in the copy of a      *)
(* record leaves what the program that follows it leaves when it fails     *)
(* without programming a byte (tear = 0).                                  *)

FailWrite(key, data) ==
    /\ up
    /\ losses = 0
    /\ \E budget \in 0..(mtb_kvstore_write(Quiet(flash, obj), key, data).calls - 1), tear \in Tears :
         \E m \in {mtb_kvstore_write(Machine(flash, obj, budget, tear, TRUE, gcs), key, data)} :
             /\ m.rc = BD_ERROR
             /\ m.gcs <= MaxCompactions
             /\ flash' = m.flash
             /\ obj' = m.obj
             /\ gcs' = m.gcs
             /\ last' = Cut("write", key, data, m)
    /\ losses' = losses + 1
    /\ UNCHANGED <<up, model, pend, mutex, pc>>

FailDelete(key) ==
    /\ up
    /\ losses = 0
    /\ \E budget \in 0..(mtb_kvstore_delete(Quiet(flash, obj), key).calls - 1), tear \in Tears :
         \E m \in {mtb_kvstore_delete(Machine(flash, obj, budget, tear, TRUE, gcs), key)} :
             /\ m.rc = BD_ERROR
             /\ m.gcs <= MaxCompactions
             /\ flash' = m.flash
             /\ obj' = m.obj
             /\ gcs' = m.gcs
             /\ last' = Cut("delete", key, <<>>, m)
    /\ losses' = losses + 1
    /\ UNCHANGED <<up, model, pend, mutex, pc>>

FailReset ==
    /\ up
    /\ losses = 0
    /\ \E budget \in 0..(mtb_kvstore_reset(Quiet(flash, obj)).calls - 1), tear \in Tears :
         \E m \in {mtb_kvstore_reset(Machine(flash, obj, budget, tear, TRUE, gcs))} :
             /\ m.rc = BD_ERROR
             /\ m.gcs <= MaxCompactions
             /\ flash' = m.flash
             /\ obj' = m.obj
             /\ gcs' = m.gcs
             /\ last' = Cut("reset", <<>>, <<>>, m)
    /\ losses' = losses + 1
    /\ UNCHANGED <<up, model, pend, mutex, pc>>

NextFault ==
    \/ DoInit /\ gcs' <= MaxCompactions + 1
    \/ losses = 0 /\ \E key \in LossKeys, data \in Values : DoWrite(key, data, MaxCompactions)
    \/ losses = 0 /\ \E key \in LossKeys : DoDelete(key, MaxCompactions)
    \/ \E key \in LossKeys, data \in Values : FailWrite(key, data)
    \/ \E key \in LossKeys : FailDelete(key)
    \/ FailReset
    \/ \E key \in LossKeys : DoRead(key, TRUE, TRUE, ReadBufferSize)
    \/ DoDeinit

SpecFault == Init /\ [][NextFault]_vars

\* C22: a write or delete whose garbage collection a device error ends
\* returns the error and leaves the instance as it was before the call: the
\* RAM table with every entry at the offset of its record in the active
\* area, consumed_size, active_area_version, free_space_offset and the
\* addresses of the active and the spare area.
C22_FailedCompactionKeepsRam ==
    [][(/\ up
        /\ last'.op \in {"write", "delete"}
        /\ last'.rc = BD_ERROR
        /\ last'.gc)
          => obj' = obj]_vars

\* C23: a write or delete that runs no garbage collection and whose record a
\* device error leaves unwritten returns the error and leaves the RAM table,
\* consumed_size and free_space_offset as they were.
C23_FailedAppendKeepsRam ==
    [][(/\ up
        /\ last'.op \in {"write", "delete"}
        /\ last'.rc = BD_ERROR
        /\ ~last'.gc)
          => /\ obj'.ram_table = obj.ram_table
             /\ obj'.consumed_size = obj.consumed_size
             /\ obj'.free_space_offset = obj.free_space_offset]_vars

\* the append of a record has failed on a store that holds a key, with part
\* of the record programmed
C23_Witness ==
    /\ up
    /\ last.op \in {"write", "delete"}
    /\ last.rc = BD_ERROR
    /\ ~last.gc
    /\ last.cut = "part"
    /\ model # EmptyMap
    /\ Len(obj.ram_table) >= 1

\* C24: mtb_kvstore_reset that returns an error has changed nothing that a
\* caller sees: every key reads as before the call and mtb_kvstore_size
\* gives the same value.
C24_FailedResetChangesNothing ==
    [][(/\ up
        /\ last'.op = "reset"
        /\ last'.rc # CY_RSLT_SUCCESS)
          => /\ Contents(flash', obj') = model
             /\ mtb_kvstore_size(obj') = mtb_kvstore_size(obj)]_vars

----------------------------------------------------------------------------
(* The exits of the public calls.  Threads call the store with keys of     *)
(* every kind on a device that may fail one program or erase call: the     *)
(* calls end with BAD_PARAM, STORAGE_FULL, ITEM_NOT_FOUND, MEM_ALLOC or a  *)
(* device error as well as with success.                                   *)

ExitKeys == {KeyAct, KeyPad}

\* the budgets of a call that makes `calls` program and erase calls: no
\* failure (-1), or the failure of one of them if no call has failed so far
Budgets(calls) == {-1} \cup (IF losses = 0 THEN 0..(calls - 1) ELSE {})

\* variant: an error return leaves the mutex with the thread
return_keeps_mutex_on_error(t, result) ==
    /\ mutex' = (IF result = CY_RSLT_SUCCESS THEN 0 ELSE mutex)
    /\ pc' = [pc EXCEPT ![t] = "idle"]

\* the end of a public call that holds the mutex: _mtb_kvstore_unlock, then
\* `return result`
Return(t, result) ==
    /\ mutex' = 0
    /\ pc' = [pc EXCEPT ![t] = "idle"]

\* mtb_kvstore_init by thread t: it creates the mutex, takes it, and gives it
\* back before it returns (a failed init then calls mtb_kvstore_deinit)
ExitInit(t, heap) ==
    /\ ~up
    /\ mutex = 0
    /\ \A u \in Threads : pc[u] = "idle"
    /\ heap \/ losses = 0
    /\ \E budget \in Budgets(mtb_kvstore_init(flash, -1, 0, heap, gcs).calls) :
         \E m \in {mtb_kvstore_init(flash, budget, 0, heap, gcs)} :
             /\ m.gcs <= MaxCompactions + 1
             /\ flash' = m.flash
             /\ obj' = m.obj
             /\ up' = Ok(m)
             /\ gcs' = m.gcs
             /\ model' = IF Ok(m) THEN Contents(m.flash, m.obj) ELSE model
             /\ pend' = model'
             /\ last' = Cut("init", <<>>, <<>>, m)
             /\ losses' = IF budget >= 0 \/ ~heap THEN losses + 1 ELSE losses
             /\ Return(t, m.rc)

\* mtb_kvstore_write or mtb_kvstore_read with a key that is not valid: the
\* call returns before _mtb_kvstore_lock
RefusedCall(t, call, key) ==
    /\ up
    /\ pc[t] = "idle"
    /\ ~_mtb_kvstore_is_valid_key(key)
    /\ last' = [op |-> call, key |-> key, data |-> <<>>, rc |-> MTB_KVSTORE_BAD_PARAM_ERROR,
                calls |-> 0, size |-> 0, fso |-> 0, cut |-> "none", gc |-> FALSE]
    /\ UNCHANGED <<flash, obj, up, model, pend, gcs, losses, mutex, pc>>

\* mtb_kvstore_write from behind _mtb_kvstore_lock to its return
ExitWrite(t, key, data) ==
    /\ pc[t] = "write"
    /\ mutex = t
    /\ \E budget \in Budgets(mtb_kvstore_write(Quiet(flash, obj), key, data).calls) :
         \E m \in {mtb_kvstore_write(Machine(flash, obj, budget, 0, TRUE, gcs), key, data)} :
             /\ m.gcs <= MaxCompactions
             /\ flash' = m.flash
             /\ obj' = m.obj
             /\ gcs' = m.gcs
             /\ model' = IF Ok(m) THEN [model EXCEPT ![key] = data] ELSE model
             /\ pend' = model'
             /\ last' = Cut("write", key, data, m)
             /\ losses' = IF budget >= 0 THEN losses + 1 ELSE losses
             /\ Return(t, m.rc)
    /\ UNCHANGED up

\* mtb_kvstore_delete from behind _mtb_kvstore_lock to its return
ExitDelete(t, key) ==
    /\ pc[t] = "delete"
    /\ mutex = t
    /\ \E budget \in Budgets(mtb_kvstore_delete(Quiet(flash, obj), key).calls) :
         \E m \in {mtb_kvstore_delete(Machine(flash, obj, budget, 0, TRUE, gcs), key)} :
             /\ m.gcs <= MaxCompactions
             /\ flash' = m.flash
             /\ obj' = m.obj
             /\ gcs' = m.gcs
             /\ model' = IF Ok(m) /\ key \in Keys THEN [model EXCEPT ![key] = None] ELSE model
             /\ pend' = model'
             /\ last' = Cut("delete", key, <<>>, m)
             /\ losses' = IF budget >= 0 THEN losses + 1 ELSE losses
             /\ Return(t, m.rc)
    /\ UNCHANGED up

\* mtb_kvstore_reset from behind _mtb_kvstore_lock to its return
ExitReset(t) ==
    /\ pc[t] = "reset"
    /\ mutex = t
    /\ \E budget \in Budgets(mtb_kvstore_reset(Quiet(flash, obj)).calls) :
         \E m \in {mtb_kvstore_reset(Machine(flash, obj, budget, 0, TRUE, gcs))} :
             /\ m.gcs <= MaxCompactions
             /\ flash' = m.flash
             /\ obj' = m.obj
             /\ gcs' = m.gcs
             /\ model' = IF Ok(m) THEN EmptyMap ELSE model
             /\ pend' = model'
             /\ last' = Cut("reset", <<>>, <<>>, m)
             /\ losses' = IF budget >= 0 THEN losses + 1 ELSE losses
             /\ Return(t, m.rc)
    /\ UNCHANGED up

\* mtb_kvstore_read from behind _mtb_kvstore_lock to its return
ExitRead(t, key) ==
    /\ pc[t] = "read"
    /\ mutex = t
    /\ \E r \in {mtb_kvstore_read(flash, obj, key, TRUE, TRUE, ReadBufferSize)} :
           /\ last' = [op |-> "read", key |-> key, data |-> r.data, rc |-> r.rc, calls |-> 0,
                       size |-> r.size, fso |-> 0, cut |-> "none", gc |-> FALSE,
                       has_data |-> TRUE, has_size |-> TRUE, size_in |-> ReadBufferSize]
           /\ Return(t, r.rc)
    /\ UNCHANGED <<flash, obj, up, model, pend, gcs, losses>>

NextExits ==
    \/ \E t \in Threads, heap \in BOOLEAN : ExitInit(t, heap)
    \/ \E t \in Threads, call \in LockedCalls : Lock(t, call)
    \/ \E t \in Threads, call \in {"write", "read"}, key \in BadKeys : RefusedCall(t, call, key)
    \/ \E t \in Threads, key \in ExitKeys : ExitWrite(t, key, ValBig)
    \/ \E t \in Threads, key \in ExitKeys \cup BadKeys : ExitDelete(t, key)
    \/ \E t \in Threads : ExitReset(t)
    \/ \E t \in Threads, key \in ExitKeys : ExitRead(t, key)
    \/ mutex = 0 /\ DoDeinit

SpecExits == Init /\ [][NextExits]_vars

\* C21: a thread that is in no public call does not hold the mutex of the
\* instance: every public call that took the mutex has given it back when
\* it returns, whatever its result, so that the mutex is free whenever no
\* call is in progress.
C21_LockReleasedOnEveryExit ==
    /\ \A t \in Threads : pc[t] = "idle" => mutex # t
    /\ (\A t \in Threads : pc[t] = "idle") => mutex = 0

\* a call has ended with a device error or MEM_ALLOC, a later mtb_kvstore_write
\* that took the mutex has returned STORAGE_FULL, and no call is in progress
C21_Witness ==
    /\ up
    /\ \A t \in Threads : pc[t] = "idle"
    /\ last.op = "write"
    /\ last.rc = MTB_KVSTORE_STORAGE_FULL_ERROR
    /\ losses = 1


----------------------------------------------------------------------------
(* The order of the steps of a garbage collection.                         *)

\* the call `c` (a value of `last`) run again from the state before it with
\* no fault injected
Rerun(c) ==
    IF c.op = "write" THEN mtb_kvstore_write(Quiet(flash, obj), c.key, c.data)
    ELSE IF c.op = "delete" THEN mtb_kvstore_delete(Quiet(flash, obj), c.key)
    ELSE mtb_kvstore_reset(Quiet(flash, obj))

\* the cells of the area record of the area at `area_address`
CellsOfAreaRecord(area_address) ==
    { c \in 0..(NumCells - 1) :
        /\ c * ProgSize >= area_address - StartAddr
        /\ c * ProgSize < area_address - StartAddr + _mtb_kvstore_get_area_header_record_size }

\* the cells of the area at `area_address` behind its area record
CellsBehindAreaRecord(area_address) ==
    { c \in 0..(NumCells - 1) :
        /\ c * ProgSize >= area_address - StartAddr + _mtb_kvstore_get_area_header_record_size
        /\ c * ProgSize < area_address - StartAddr + _MTB_KVSTORE_AREA_SIZE }

\* the area at `area_address` carries a valid area record of `version`
AreaRecordIs(f, area_address, version) ==
    /\ _mtb_kvstore_check_area_valid(f, area_address).rc = CY_RSLT_SUCCESS
    /\ _mtb_kvstore_check_area_valid(f, area_address).version = version

\* the areas of o2 are those of o1 with the roles exchanged
Swapped(o1, o2) ==
    /\ o2.active_area_addr = o1.gc_area_addr
    /\ o2.gc_area_addr = o1.active_area_addr

\* C25: in every garbage collection the program of the new area record into
\* the spare area is the last media write. A collection that a device error
\* ends before that program completed has not written the new area record:
\* the spare area carries no valid record of the new version, unless the
\* cells of its area record are untouched since before the call (an error in
\* the first erase call). When the error hits that program itself, the spare
\* area is erased and holds behind the place of the area record every record
\* the collection writes. The areas change roles and free_space_offset changes
\* only when the program of the area record returned success: the areas have
\* changed roles only if the new area record is in place, and otherwise the
\* two addresses and free_space_offset are as before the call.
C25_AreaRecordWrittenLast ==
    [][(/\ up
        /\ last'.op \in {"write", "delete", "reset"}
        /\ last'.gc)
          => /\ Swapped(obj, obj')
                  => AreaRecordIs(flash', obj.gc_area_addr, (obj.active_area_version + 1) % U16)
             /\ ~Swapped(obj, obj')
                  => /\ obj'.active_area_addr = obj.active_area_addr
                     /\ obj'.gc_area_addr = obj.gc_area_addr
                     /\ obj'.free_space_offset = obj.free_space_offset
             /\ (last'.rc = BD_ERROR /\ last'.cut # "whole" /\ ~Swapped(obj, obj'))
                  => \/ ~AreaRecordIs(flash', obj.gc_area_addr,
                                      (obj.active_area_version + 1) % U16)
                     \/ \A c \in CellsOfAreaRecord(obj.gc_area_addr) : flash'[c] = flash[c]
             /\ (/\ last'.rc = BD_ERROR /\ ~Swapped(obj, obj')
                 /\ last'.calls = Rerun(last').calls)
                  => \A c \in CellsBehindAreaRecord(obj.gc_area_addr) :
                         flash'[c] = Rerun(last').flash[c]]_vars

\* a write or delete stopped in the program of the area record of its
\* garbage collection (the version in RAM is already the new one): the spare
\* area holds a record behind the place of the area record and no valid area
\* record, and the active area still carries its area record
C25_Witness ==
    /\ up
    /\ last.op \in {"write", "delete"} /\ last.gc /\ last.rc = BD_ERROR /\ last.cut = "part"
    /\ _mtb_kvstore_check_area_valid(flash, obj.gc_area_addr).rc # CY_RSLT_SUCCESS
    /\ AreaRecordIs(flash, obj.active_area_addr, (obj.active_area_version + U16 - 1) % U16)
    /\ flash[(obj.gc_area_addr - StartAddr + _mtb_kvstore_get_area_header_record_size)
             \div ProgSize] # ErasedCell


----------------------------------------------------------------------------
(* The erase of an area under power loss.                                  *)

\* the number of bd->erase calls of _mtb_kvstore_erase_area
EraseCalls == IF EraseSize < _MTB_KVSTORE_AREA_SIZE THEN 2 ELSE 1

\* C26: the supply fails in one of the erase calls of the erase of the spare
\* area that begins a garbage collection. The sectors behind the first are
\* erased before the first, so the spare area either still holds its area
\* record as it was or is erased whole; and the restart from that flash
\* selects as active the area that was active before the loss, never the
\* area whose erase was cut.
C26_CutEraseKeepsActiveArea ==
    [][(/\ up /\ ~up'
        /\ last'.op \in {"write", "delete", "reset"}
        /\ last'.gc
        /\ last'.calls <= EraseCalls)
          => /\ \/ \A c \in CellsOfAreaRecord(obj.gc_area_addr) : flash'[c] = flash[c]
                \/ \A c \in CellsOfAreaRecord(obj.gc_area_addr)
                            \cup CellsBehindAreaRecord(obj.gc_area_addr) :
                       flash'[c] = ErasedCell
             /\ \E m \in {mtb_kvstore_init(flash', -1, 0, TRUE, gcs')} :
                    /\ Ok(m)
                    /\ m.obj.active_area_addr = obj.active_area_addr]_vars


----------------------------------------------------------------------------
(* Invariants of the instance between the calls, with no device error.     *)

\* C27: between the calls of an initialised instance the record at offset 0
\* of the active area is a valid area record (key MTBAREAIDX, magic and CRC
\* passing) whose version is active_area_version of the instance.
C27_ActiveAreaRecordMatchesRam ==
    up => AreaRecordIs(flash, obj.active_area_addr, obj.active_area_version)

\* the instance after a write whose garbage collection exchanged the areas:
\* the active area is the second one and the version was counted up
C27_Witness ==
    /\ up
    /\ last.op = "write" /\ last.rc = CY_RSLT_SUCCESS /\ last.gc
    /\ obj.active_area_addr = Area2
    /\ obj.active_area_version > 0
    /\ AreaRecordIs(flash, obj.active_area_addr, obj.active_area_version)


\* the record that entry idx of the RAM table of o locates, read with the
\* checks of _mtb_kvstore_read_record and no key to compare with
RecordOfEntry(f, o, idx) ==
    _mtb_kvstore_read_record(f, o.active_area_addr, o.ram_table[idx].offset, <<>>,
                             FALSE, FALSE, TRUE, 0)

\* C28: between the calls of an initialised instance every entry of the RAM
\* table locates in the active area a record that passes the CRC check, does
\* not carry the delete flag and has a key whose CRC-16 is the hash of the
\* entry; and no two entries locate records of the same key.
C28_RamTableLocatesLiveRecords ==
    up => /\ \A idx \in 1..Len(obj.ram_table) :
                 /\ RecordOfEntry(flash, obj, idx).rc = CY_RSLT_SUCCESS
                 /\ (RecordOfEntry(flash, obj, idx).header.flags
                        \div _MTB_KVSTORE_DELETE_FLAG) % 2 = 0
                 /\ _mtb_kvstore_crc16(RecordOfEntry(flash, obj, idx).key,
                                       Len(RecordOfEntry(flash, obj, idx).key),
                                       _MTB_KVSTORE_CRC_INIT_VAL)
                        = obj.ram_table[idx].hash
          /\ \A i, j \in 1..Len(obj.ram_table) :
                 i # j => RecordOfEntry(flash, obj, i).key # RecordOfEntry(flash, obj, j).key

\* the two keys of equal hash are both stored, a garbage collection has run
\* and the third key was just deleted
C28_Witness ==
    /\ up
    /\ Len(obj.ram_table) = 2
    /\ obj.ram_table[1].hash = obj.ram_table[2].hash
    /\ model[KeyAct] # None /\ model[KeyPad] # None
    /\ gcs >= 1
    /\ last.op = "delete" /\ last.rc = CY_RSLT_SUCCESS /\ last.key = KeyB


----------------------------------------------------------------------------
(* The order of the records that a garbage collection copies.  The runs    *)
(* are made on the wide device, whose areas hold three records beside the  *)
(* area record.                                                            *)

WideFlash == [c \in 0..(WideLength \div ProgSize - 1) |-> ErasedCell]

InitWide ==
    /\ flash = WideFlash
    /\ obj = NullObj
    /\ up = FALSE
    /\ last = [op |-> "none", key |-> <<>>, data |-> <<>>, rc |-> CY_RSLT_SUCCESS,
               calls |-> 0, size |-> 0, fso |-> 0, cut |-> "none", gc |-> FALSE]
    /\ model = EmptyMap
    /\ pend = EmptyMap
    /\ gcs = 0
    /\ losses = 0
    /\ mutex = 0
    /\ pc = [t \in Threads |-> "idle"]

NextWide ==
    \/ DoInit
    \/ \E key \in Keys : DoWrite(key, ValEmpty, MaxCompactions)
    \/ DoDelete(KeyAct, MaxCompactions)
    \/ DoDeinit

SpecWide == InitWide /\ [][NextWide]_vars

\* the key has an entry in the RAM table of o
Live(f, o, key) ==
    _mtb_kvstore_find_record_in_ram_table(f, o, key, FALSE).rc = CY_RSLT_SUCCESS

\* the index of the entry of a live key in the RAM table, and the offset in it
IndexOf(f, o, key) == _mtb_kvstore_find_record_in_ram_table(f, o, key, FALSE).ram_tbl_idx
OffsetOf(f, o, key) == o.ram_table[IndexOf(f, o, key)].offset

\* C29 as stated: live records keep their append order across a garbage
\* collection. For two keys live behind a write or delete that ran a
\* collection, if the live record of A was appended before that of B (both
\* untouched by the call and A at the smaller offset before it, or B the key
\* the call wrote), then A's record has the smaller offset in the new active
\* area.
C29_AppendOrderKept ==
    [][(/\ up /\ up'
        /\ last'.op \in {"write", "delete"}
        /\ last'.gc
        /\ last'.rc = CY_RSLT_SUCCESS)
          => \A A, B \in Keys :
                 (/\ A # B
                  /\ Live(flash', obj', A) /\ Live(flash', obj', B)
                  /\ A # last'.key
                  /\ \/ B = last'.key
                     \/ OffsetOf(flash, obj, A) < OffsetOf(flash, obj, B))
                    => OffsetOf(flash', obj', A) < OffsetOf(flash', obj', B)]_vars

\* C29 amended: a garbage collection lays the live records it copies into
\* the new active area in the order of their entries in the RAM table
\* (falling key hash, keys of equal hash in the order of their entries),
\* whatever their append order was; the record of the key that the call
\* wrote lies behind all of them.
C29_IndexOrderKept ==
    [][(/\ up /\ up'
        /\ last'.op \in {"write", "delete"}
        /\ last'.gc
        /\ last'.rc = CY_RSLT_SUCCESS)
          => \A A, B \in Keys :
                 (/\ A # B
                  /\ Live(flash', obj', A) /\ Live(flash', obj', B)
                  /\ A # last'.key
                  /\ \/ B = last'.key
                     \/ IndexOf(flash', obj', A) < IndexOf(flash', obj', B))
                    => OffsetOf(flash', obj', A) < OffsetOf(flash', obj', B)]_vars

\* behind a write that ran a garbage collection three keys are live: two
\* records were copied and the record of the written key lies behind them
C29_Witness ==
    /\ up
    /\ last.op = "write" /\ last.rc = CY_RSLT_SUCCESS /\ last.gc
    /\ Len(obj.ram_table) = 3
    /\ \A key \in Keys \ {last.key} : OffsetOf(flash, obj, key) < OffsetOf(flash, obj, last.key)


\* C30: between the calls of an initialised instance the consumed size is at
\* most the free space offset, and the free space offset is at most the size
\* of an area.
C30_ConsumedWithinFreeSpaceOffset ==
    up => /\ obj.consumed_size <= obj.free_space_offset
          /\ obj.free_space_offset <= _MTB_KVSTORE_AREA_SIZE

\* the active area is full to its last byte and holds a record that was
\* superseded: the consumed size is below the free space offset
C30_Witness ==
    /\ up
    /\ obj.consumed_size < obj.free_space_offset
    /\ obj.free_space_offset = _MTB_KVSTORE_AREA_SIZE
    /\ last.op \in {"write", "delete"} /\ last.rc = CY_RSLT_SUCCESS


----------------------------------------------------------------------------
(* The order of the RAM table.                                             *)

\* C31: between the calls of an initialised instance the hashes of the RAM
\* table never rise from one entry to the next, so entries of equal hash
\* are neighbours; and the linear search that stops at the first smaller
\* hash finds every live key at its own entry, keys of equal hash included.
C31_RamTableOrderedByHash ==
    up => /\ \A i, j \in 1..Len(obj.ram_table) :
                 i < j => obj.ram_table[i].hash >= obj.ram_table[j].hash
          /\ \A idx \in 1..Len(obj.ram_table) :
                 /\ Live(flash, obj, RecordOfEntry(flash, obj, idx).key)
                 /\ IndexOf(flash, obj, RecordOfEntry(flash, obj, idx).key) = idx
          /\ \A key \in Keys : model[key] # None => Live(flash, obj, key)

\* behind a write that ran a garbage collection the table holds the entry of
\* "b" in front of the entry of a key of the smaller hash
C31_Witness ==
    /\ up
    /\ last.op = "write" /\ last.rc = CY_RSLT_SUCCESS /\ last.gc
    /\ Len(obj.ram_table) = 2
    /\ obj.ram_table[1].hash > obj.ram_table[2].hash
    /\ model[KeyB] # None


----------------------------------------------------------------------------
(* The active area behind a garbage collection.                            *)

\* the padded sizes of the records that the first n entries of the RAM
\* table of o locate, added up
RECURSIVE TableSize(_, _, _)
TableSize(f, o, n) ==
    IF n = 0 THEN 0
    ELSE TableSize(f, o, n - 1)
         + _mtb_kvstore_get_record_size(RecordOfEntry(f, o, n).header.key_size,
                                        RecordOfEntry(f, o, n).header.data_size)

\* C32: behind every call that ran a garbage collection and succeeded (a
\* write of a new key, an update or delete handed to the collection, an init
\* whose scan met a corrupted record, a reset) free_space_offset equals
\* consumed_size, and the active area holds the area record and the live
\* records and nothing else: consumed_size is the size of the area record
\* plus the sizes of the records of the RAM table, each of them valid and
\* without the delete flag, and the area is erased from free_space_offset on.
C32_CompactedAreaHoldsLiveRecordsOnly ==
    [][(/\ up'
        /\ last'.op \in {"init", "write", "delete", "reset"}
        /\ last'.rc = CY_RSLT_SUCCESS
        /\ last'.gc)
          => /\ obj'.free_space_offset = obj'.consumed_size
             /\ obj'.consumed_size
                    = _mtb_kvstore_get_area_header_record_size
                      + TableSize(flash', obj', Len(obj'.ram_table))
             /\ \A idx \in 1..Len(obj'.ram_table) :
                    /\ RecordOfEntry(flash', obj', idx).rc = CY_RSLT_SUCCESS
                    /\ (RecordOfEntry(flash', obj', idx).header.flags
                           \div _MTB_KVSTORE_DELETE_FLAG) % 2 = 0
             /\ \A c \in CellsBehindAreaRecord(obj'.active_area_addr) :
                    c * ProgSize >= obj'.active_area_addr - StartAddr + obj'.free_space_offset
                        => flash'[c] = ErasedCell]_vars

\* an init whose scan met a record cut by a power loss has run the garbage
\* collection and kept a live record
C32_Witness ==
    /\ up
    /\ last.op = "init" /\ last.rc = CY_RSLT_SUCCESS /\ last.gc
    /\ Len(obj.ram_table) >= 1
    /\ obj.free_space_offset = obj.consumed_size


----------------------------------------------------------------------------
(* Calls that follow a device error.  One program or erase call of one     *)
(* call returns an error; the application goes on calling the store.       *)

NextErrors ==
    \/ DoInit /\ gcs' <= MaxCompactions + 1
    \/ \E key \in LossKeys, data \in Values : DoWrite(key, data, MaxCompactions)
    \/ \E key \in LossKeys : DoDelete(key, MaxCompactions)
    \/ DoReset(MaxCompactions)
    \/ \E key \in LossKeys, data \in Values : FailWrite(key, data)
    \/ \E key \in LossKeys : FailDelete(key)
    \/ FailReset
    \/ DoDeinit

SpecErrors == Init /\ [][NextErrors]_vars

\* C33: in every state of an initialised instance, also behind a call that
\* returned a device error, the next write, delete or reset trips no
\* assertion: every record it programs, appended or written inside the
\* garbage collection, ends within the area
\* (free_space_offset + record_size <= area size, offset + record_size <=
\* area size).
C33_RecordsEndWithinArea ==
    up => /\ \A key \in LossKeys, data \in Values :
                 ~mtb_kvstore_write(Quiet(flash, obj), key, data).asserted
          /\ \A key \in LossKeys : ~mtb_kvstore_delete(Quiet(flash, obj), key).asserted
          /\ ~mtb_kvstore_reset(Quiet(flash, obj)).asserted


----------------------------------------------------------------------------
(* The growth of the RAM table.  The table starts with room for            *)
(* _MTB_KVSTORE_INIT_MAX_KEYS entries; the runs are made on a region whose *)
(* areas hold more records than that, with keys of one byte, and malloc    *)
(* either serves the doubled table or fails.  The calls of these runs stop *)
(* short of a garbage collection, and the instance stays initialised.      *)

FullLength == 2304
FullFlash == [c \in 0..(FullLength \div ProgSize - 1) |-> ErasedCell]
FullKey(n) == <<n>>

\* the keys written in turn until the table is nearly full, then any of these
LateKeys == {FullKey(1), FullKey(_MTB_KVSTORE_INIT_MAX_KEYS),
             FullKey(_MTB_KVSTORE_INIT_MAX_KEYS + 1), FullKey(_MTB_KVSTORE_INIT_MAX_KEYS + 2)}

InitFull ==
    /\ flash = FullFlash
    /\ obj = NullObj
    /\ up = FALSE
    /\ last = [op |-> "none", key |-> <<>>, data |-> <<>>, rc |-> CY_RSLT_SUCCESS,
               calls |-> 0, size |-> 0, fso |-> 0, cut |-> "none", gc |-> FALSE]
    /\ model = EmptyMap
    /\ pend = EmptyMap
    /\ gcs = 0
    /\ losses = 0
    /\ mutex = 0
    /\ pc = [t \in Threads |-> "idle"]

\* mtb_kvstore_write of an empty value while malloc serves (heap) or fails
FullWrite(key, heap) ==
    /\ up
    /\ \E m \in {mtb_kvstore_write(Machine(flash, obj, -1, 0, heap, gcs), key, ValEmpty)} :
           /\ m.gcs = gcs
           /\ flash' = m.flash
           /\ obj' = m.obj
           /\ gcs' = m.gcs
           /\ last' = Called("write", key, ValEmpty, m)
    /\ UNCHANGED <<up, model, pend, losses, mutex, pc>>

FullDelete(key) ==
    /\ up
    /\ \E m \in {mtb_kvstore_delete(Quiet(flash, obj), key)} :
           /\ m.gcs = gcs
           /\ flash' = m.flash
           /\ obj' = m.obj
           /\ gcs' = m.gcs
           /\ last' = Called("delete", key, <<>>, m)
    /\ UNCHANGED <<up, model, pend, losses, mutex, pc>>

FullInit ==
    /\ ~up
    /\ \E m \in {mtb_kvstore_init(flash, -1, 0, TRUE, gcs)} :
           /\ flash' = m.flash
           /\ obj' = m.obj
           /\ up' = Ok(m)
           /\ gcs' = m.gcs
           /\ last' = Called("init", <<>>, <<>>, m)
    /\ UNCHANGED <<model, pend, losses, mutex, pc>>

\* the next record of a key of one byte still fits behind free_space_offset
FullRoom ==
    obj.free_space_offset + _mtb_kvstore_get_record_size(1, 0) <= _MTB_KVSTORE_AREA_SIZE

NextFull ==
    \/ FullInit
    \/ Len(obj.ram_table) < _MTB_KVSTORE_INIT_MAX_KEYS - 1
           /\ FullWrite(FullKey(Len(obj.ram_table) + 1), TRUE)
    \/ Len(obj.ram_table) >= _MTB_KVSTORE_INIT_MAX_KEYS - 1 /\ FullRoom
           /\ \E key \in LateKeys, heap \in BOOLEAN : FullWrite(key, heap)
    \/ Len(obj.ram_table) >= _MTB_KVSTORE_INIT_MAX_KEYS - 1 /\ FullRoom
           /\ \E key \in LateKeys : FullDelete(key)

SpecFull == InitFull /\ [][NextFull]_vars

\* C34: a write that returns MEM_ALLOC (a new key, the RAM table full, no
\* memory for the doubled table) has issued no program and no erase call and
\* has left the flash and the instance (RAM table, max_entries, consumed_size,
\* free_space_offset) as they were; and in every state the number of entries
\* of the RAM table is at most max_entries.
C34_AllocFailureChangesNothing ==
    [][/\ up' => Len(obj'.ram_table) <= obj'.max_entries
       /\ (up /\ last'.op = "write" /\ last'.rc = MTB_KVSTORE_MEM_ALLOC_ERROR)
             => /\ last'.calls = 0
                /\ flash' = flash
                /\ obj' = obj]_vars

\* a write of a new key into the full table has just failed for lack of
\* memory
C34_Witness ==
    /\ up
    /\ last.op = "write" /\ last.rc = MTB_KVSTORE_MEM_ALLOC_ERROR
    /\ Len(obj.ram_table) = _MTB_KVSTORE_INIT_MAX_KEYS
    /\ obj.max_entries = _MTB_KVSTORE_INIT_MAX_KEYS
    /\ ~Live(flash, obj, last.key)



----------------------------------------------------------------------------
(* The alignment of the program calls.  bd_program notes an address, and   *)
(* its callers a length, that is no multiple of the program size.          *)

----------------------------------------------------------------------------
(* Programming over programmed bytes.  bd_program notes a call that        *)
(* programs a cell that holds bytes programmed since its last erase.       *)

\* C36: in every state, also behind a call that returned a device error,
\* no program call of the next init, write, delete or reset targets bytes
\* that were programmed since the last erase of their sector.
C36_NoProgramOverProgrammed ==
    /\ ~up => ~mtb_kvstore_init(flash, -1, 0, TRUE, gcs).reprog
    /\ up => /\ \A key \in LossKeys, data \in Values :
                    ~mtb_kvstore_write(Quiet(flash, obj), key, data).reprog
             /\ \A key \in LossKeys : ~mtb_kvstore_delete(Quiet(flash, obj), key).reprog
             /\ ~mtb_kvstore_reset(Quiet(flash, obj)).reprog



----------------------------------------------------------------------------
(* Media written elsewhere.  No call of the store leaves a delete record   *)
(* of a key that has no record before it in the same area; the scan of     *)
(* mtb_kvstore_init meets one only on media that something else has        *)
(* written.  Such media are made here of the area record of area 1 and of  *)
(* up to three records behind it, records of the keys and delete records,  *)
(* in any order; the instance is then initialised on them.                 *)

MaxMediaRecords == 3

MediaRecord ==
    [key : LossKeys, data : Values, delete : {FALSE}]
        \cup [key : LossKeys, data : {ValEmpty}, delete : {TRUE}]

MediaSize(rec) == _mtb_kvstore_get_record_size(Len(rec.key), Len(rec.data))

RECURSIVE MediaEnd(_, _)
MediaEnd(recs, n) ==
    IF n = 0 THEN _mtb_kvstore_get_area_header_record_size
    ELSE MediaEnd(recs, n - 1) + MediaSize(recs[n])

\* the records recs[i..] programmed behind the records before them
RECURSIVE MediaFrom(_, _, _)
MediaFrom(m, recs, i) ==
    IF i > Len(recs) THEN m
    ELSE MediaFrom(_mtb_kvstore_buffered_write(
                       m, _mtb_kvstore_setup_record_header(
                              recs[i].key, recs[i].data,
                              IF recs[i].delete THEN _MTB_KVSTORE_DELETE_FLAG
                              ELSE _MTB_KVSTORE_NO_FLAG),
                       Area1 + MediaEnd(recs, i - 1), 0),
                   recs, i + 1)

\* record i of recs is the last record of its key
LastOfKey(recs, i) == \A j \in (i + 1)..Len(recs) : recs[j].key # recs[i].key

\* record i of recs is a delete record of a key that no record before it
\* has left in the RAM table
Orphan(recs, i) ==
    /\ recs[i].delete
    /\ \A j \in 1..(i - 1) :
           recs[j].key = recs[i].key
               => recs[j].delete \/ \E l \in (j + 1)..(i - 1) : recs[l].key = recs[i].key

\* the sizes of the records of recs that are the last of their key and no
\* delete records
RECURSIVE MediaLiveSize(_, _)
MediaLiveSize(recs, n) ==
    IF n = 0 THEN 0
    ELSE MediaLiveSize(recs, n - 1)
         + (IF LastOfKey(recs, n) /\ ~recs[n].delete THEN MediaSize(recs[n]) ELSE 0)

PrepareMedia(recs) ==
    /\ ~up
    /\ last.op = "none"
    /\ MediaEnd(recs, Len(recs)) <= _MTB_KVSTORE_AREA_SIZE
    /\ flash' = MediaFrom(_mtb_kvstore_write_area_record(
                              Quiet(flash, NullObj), Area1, _MTB_KVSTORE_INITIAL_AREA_VERSION),
                          recs, 1).flash
    /\ last' = [op |-> "media", key |-> <<>>, data |-> <<>>, rc |-> CY_RSLT_SUCCESS,
                calls |-> 0, size |-> 0, fso |-> MediaEnd(recs, Len(recs)), cut |-> "none",
                gc |-> FALSE, records |-> recs]
    /\ UNCHANGED <<obj, up, model, pend, gcs, losses, mutex, pc>>

NextForeign ==
    \/ \E n \in 1..MaxMediaRecords : \E recs \in [1..n -> MediaRecord] : PrepareMedia(recs)
    \/ DoInit
    \/ \E key \in LossKeys : DoRead(key, TRUE, TRUE, ReadBufferSize)
    \/ DoDeinit

SpecForeign == InitWide /\ [][NextForeign]_vars

\* C37: mtb_kvstore_init on an area whose records include delete records of
\* keys that are not in the RAM table when the scan reaches them succeeds
\* without a garbage collection; the scan goes on to the end of the records
\* (free_space_offset is the end of the last record), and the RAM table and
\* consumed_size are as the other records make them: every key reads what
\* its last record says, a key whose last record is a delete record or that
\* has no record is not found, consumed_size is the size of the area record
\* plus the sizes of the last records of the keys that are no delete records.
C37_ScanIgnoresOrphanDelete ==
    [][(/\ ~up
        /\ last.op = "media"
        /\ last'.op = "init"
        /\ \E i \in 1..Len(last.records) : Orphan(last.records, i))
          => /\ last'.rc = CY_RSLT_SUCCESS
             /\ up'
             /\ gcs' = gcs
             /\ flash' = flash
             /\ obj'.free_space_offset = last.fso
             /\ obj'.consumed_size = _mtb_kvstore_get_area_header_record_size
                                       + MediaLiveSize(last.records, Len(last.records))
             /\ \A key \in LossKeys :
                    Contents(flash', obj')[key]
                        = IF \E i \in 1..Len(last.records) :
                                 /\ last.records[i].key = key
                                 /\ LastOfKey(last.records, i)
                                 /\ ~last.records[i].delete
                          THEN (CHOOSE rec \in {last.records[i] : i \in 1..Len(last.records)} :
                                    /\ rec.key = key
                                    /\ \E i \in 1..Len(last.records) :
                                           /\ last.records[i] = rec
                                           /\ LastOfKey(last.records, i)).data
                          ELSE None]_vars

\* the scan has met a delete record of a key that was not in the RAM table,
\* between the record of another key and a record of the same key that
\* follows it; both keys are read
C37_Witness ==
    /\ up
    /\ last.op = "read" /\ last.rc = CY_RSLT_SUCCESS /\ last.key = KeyB
    /\ last.data = ValBig
    /\ Len(obj.ram_table) = 2
    /\ obj.free_space_offset
           = _mtb_kvstore_get_area_header_record_size
             + MediaSize([key |-> KeyAct, data |-> ValBig])
             + MediaSize([key |-> KeyB, data |-> ValEmpty])
             + MediaSize([key |-> KeyB, data |-> ValBig])
    /\ Intact(flash, obj.active_area_addr + _mtb_kvstore_get_area_header_record_size
                         + MediaSize([key |-> KeyAct, data |-> ValBig]))
    /\ LET rec == flash[(obj.active_area_addr - StartAddr
                           + _mtb_kvstore_get_area_header_record_size
                           + MediaSize([key |-> KeyAct, data |-> ValBig])) \div ProgSize].rec
       IN  /\ rec.key = KeyB
           /\ (rec.hdr.flags \div _MTB_KVSTORE_DELETE_FLAG) % 2 = 1



----------------------------------------------------------------------------
(* The delete of a live key.                                               *)

\* C38: with no device error, mtb_kvstore_delete of a key that is in the RAM
\* table succeeds and the key is then not found, the other keys reading as
\* before; when the delete record does not fit behind free_space_offset
\* (also when consumed_size is the area size) the call runs the garbage
\* collection, which leaves the key's record out: the areas are swapped and
\* the new active area ends at the consumed size less the size of the key's
\* record, with no delete record written.
C38_DeleteOfLiveKeySucceeds ==
    [][(/\ up
        /\ last'.op = "delete"
        /\ Live(flash, obj, last'.key))
          => /\ last'.rc = CY_RSLT_SUCCESS
             /\ ~Live(flash', obj', last'.key)
             /\ \A key \in Keys \ {last'.key} :
                    Contents(flash', obj')[key] = Contents(flash, obj)[key]
             /\ (obj.free_space_offset + _mtb_kvstore_get_record_size(Len(last'.key), 0)
                     > _MTB_KVSTORE_AREA_SIZE)
                   => /\ last'.gc
                      /\ Swapped(obj, obj')
                      /\ obj'.consumed_size
                             = obj.consumed_size
                               - _mtb_kvstore_get_record_size(
                                     RecordOfEntry(flash, obj,
                                                   IndexOf(flash, obj, last'.key)).header.key_size,
                                     RecordOfEntry(flash, obj,
                                                   IndexOf(flash, obj, last'.key)).header.data_size)
                      /\ obj'.free_space_offset = obj'.consumed_size]_vars

\* a delete has run the garbage collection on an area that live records
\* filled to its end (consumed_size was the area size): the record of 48
\* bytes of the deleted key is gone, the other key is left
C38_Witness ==
    /\ up
    /\ last.op = "delete" /\ last.rc = CY_RSLT_SUCCESS /\ last.gc
    /\ last.key = KeyAct
    /\ Len(obj.ram_table) = 1
    /\ obj.consumed_size = _MTB_KVSTORE_AREA_SIZE
                             - _mtb_kvstore_get_record_size(Len(KeyAct), Len(ValBig))
    /\ obj.free_space_offset = obj.consumed_size
    /\ Contents(flash, obj)[KeyAct] = None
    /\ \A c \in CellsBehindAreaRecord(obj.gc_area_addr) : flash[c].n = ProgSize
    /\ Cardinality({flash[c].rec : c \in CellsBehindAreaRecord(obj.gc_area_addr)}) = 2



----------------------------------------------------------------------------
(* The active area.  bd_erase notes an erase that reaches into the active  *)
(* area, bd_program a program call that reaches into it below              *)
(* free_space_offset.                                                      *)

CellsBelowFreeSpace(o) ==
    { c \in DOMAIN flash :
          /\ c * ProgSize >= o.active_area_addr - StartAddr
          /\ c * ProgSize < o.active_area_addr - StartAddr + o.free_space_offset }

\* the region as one call of mtb_kvstore_reset on an empty store leaves it:
\* the area record of version 1 in area 1 and of version 2 in area 2, which
\* is the active area of the next mtb_kvstore_init
TurnedFlash ==
    LET n == _mtb_kvstore_get_area_header_record_size
        c1 == ImageCells(AreaRecord(_MTB_KVSTORE_INITIAL_AREA_VERSION), 0, n)
        c2 == ImageCells(AreaRecord(_MTB_KVSTORE_INITIAL_AREA_VERSION + 1), 0, n)
    IN  Programmed(Programmed(ErasedFlash, Area1, c1, n),
                   StartAddr + DeviceLength \div 2, c2, n)

InitTurned ==
    /\ flash = TurnedFlash
    /\ obj = NullObj
    /\ up = FALSE
    /\ last = [op |-> "none", key |-> <<>>, data |-> <<>>, rc |-> CY_RSLT_SUCCESS,
               calls |-> 0, size |-> 0, fso |-> 0, cut |-> "none", gc |-> FALSE]
    /\ model = EmptyMap
    /\ pend = EmptyMap
    /\ gcs = 0
    /\ losses = 0
    /\ mutex = 0
    /\ pc = [t \in Threads |-> "idle"]

SpecTurned == InitTurned /\ [][NextErrors]_vars

\* C39: in every state of an initialised instance, also behind a call that
\* returned a device error, the next write, delete or reset issues no erase
\* that reaches into the active area and no program call that reaches into
\* it below free_space_offset, and leaves the bytes of the active area below
\* free_space_offset as they are.
C39_ActiveAreaUntouched ==
    up => \A m \in {mtb_kvstore_write(Quiet(flash, obj), key, data)
                         : key \in LossKeys, data \in Values}
                    \cup {mtb_kvstore_delete(Quiet(flash, obj), key) : key \in LossKeys}
                    \cup {mtb_kvstore_reset(Quiet(flash, obj))} :
              /\ ~m.active_hit
              /\ \A c \in CellsBelowFreeSpace(obj) : m.flash[c] = flash[c]



----------------------------------------------------------------------------
(* mtb_kvstore_deinit among the threads.  A call waits in _mtb_kvstore_lock *)
(* (cy_rtos_get_mutex with MTB_KVSTORE_MUTEX_TIMEOUT_MS) until the mutex is *)
(* free or the time is up.  mtb_kvstore_deinit takes the mutex, frees the   *)
(* transaction buffer and the RAM table, gives the mutex back and then      *)
(* destroys its copy of it; the instance keeps the pointers and             *)
(* num_entries.  up = FALSE says that the buffers are freed, mutex = -1     *)
(* that the mutex is destroyed: what cy_rtos_get_mutex then does is not     *)
(* defined, it may hand out the mutex or fail.  A call that runs on freed   *)
(* buffers is followed up to its return, not into what it does to the       *)
(* device.                                                                  *)

CY_RTOS_TIMEOUT == "RTOS_TIMEOUT"

Entering == [write |-> "enter_write", delete |-> "enter_delete",
             reset |-> "enter_reset", read |-> "enter_read"]

\* the call has the mutex of a thread that holds it or of a destroyed mutex
Holds(t) == mutex = t \/ mutex = -1

\* a public call is made and waits in _mtb_kvstore_lock
Enter(t, call) ==
    /\ pc[t] = "idle"
    /\ up \/ \E u \in Threads : pc[u] = "deinit_freed"
    /\ pc' = [pc EXCEPT ![t] = Entering[call]]
    /\ UNCHANGED <<flash, obj, up, last, model, pend, gcs, losses, mutex>>

\* cy_rtos_get_mutex returns with the mutex
Acquire(t, call) ==
    /\ pc[t] = Entering[call]
    /\ mutex \in {0, -1}
    /\ mutex' = IF mutex = 0 THEN t ELSE mutex
    /\ pc' = [pc EXCEPT ![t] = call]
    /\ UNCHANGED <<flash, obj, up, last, model, pend, gcs, losses>>

\* cy_rtos_get_mutex returns without it and the call returns the error
LockTimeout(t, call) ==
    /\ pc[t] = Entering[call]
    /\ mutex # 0
    /\ pc' = [pc EXCEPT ![t] = "idle"]
    /\ last' = [op |-> call, key |-> <<>>, data |-> <<>>, rc |-> CY_RTOS_TIMEOUT,
                calls |-> 0, size |-> 0, fso |-> 0, cut |-> "none", gc |-> FALSE]
    /\ UNCHANGED <<flash, obj, up, model, pend, gcs, losses, mutex>>

\* the call behind its _mtb_kvstore_lock reads or writes a freed buffer:
\* mtb_kvstore_write and mtb_kvstore_reset always (the transaction buffer in
\* _mtb_kvstore_buffered_write, the memset of the RAM table), the others
\* when num_entries > 0 (the search of the RAM table)
UsesBuffers(call) == call \in {"write", "reset"} \/ Len(obj.ram_table) > 0

\* a call behind its _mtb_kvstore_lock runs on the freed buffers and returns
FreedCall(t, call) ==
    /\ pc[t] = call
    /\ Holds(t)
    /\ ~up
    /\ \E rc \in {CY_RSLT_SUCCESS, MTB_KVSTORE_ITEM_NOT_FOUND_ERROR,
                  MTB_KVSTORE_INVALID_DATA_ERROR} :
           last' = [op |-> call, key |-> <<>>, data |-> <<>>, rc |-> rc,
                    calls |-> 0, size |-> 0, fso |-> 0, cut |-> "none", gc |-> FALSE,
                    freed |-> UsesBuffers(call)]
    /\ mutex' = IF mutex = t THEN 0 ELSE mutex
    /\ pc' = [pc EXCEPT ![t] = "idle"]
    /\ UNCHANGED <<flash, obj, up, model, pend, gcs, losses>>

\* mtb_kvstore_deinit: _mtb_kvstore_lock_wait_forever
DeinitLock(t) ==
    /\ up
    /\ pc[t] = "idle"
    /\ mutex = 0
    /\ mutex' = t
    /\ pc' = [pc EXCEPT ![t] = "deinit"]
    /\ UNCHANGED <<flash, obj, up, last, model, pend, gcs, losses>>

\* mtb_kvstore_deinit: free of the transaction buffer and of the RAM table
DeinitFree(t) ==
    /\ pc[t] = "deinit"
    /\ mutex = t
    /\ up' = FALSE
    /\ pc' = [pc EXCEPT ![t] = "deinit_freed"]
    /\ last' = [op |-> "deinit", key |-> <<>>, data |-> <<>>, rc |-> CY_RSLT_SUCCESS,
                calls |-> 0, size |-> mtb_kvstore_size(obj), fso |-> obj.free_space_offset,
                cut |-> "none", gc |-> FALSE, after |-> <<last.op, last.rc, last.key>>,
                active |-> obj.active_area_addr]
    /\ UNCHANGED <<flash, obj, model, pend, gcs, losses, mutex>>

\* mtb_kvstore_deinit: _mtb_kvstore_unlock
DeinitUnlock(t) ==
    /\ pc[t] = "deinit_freed"
    /\ mutex = t
    /\ mutex' = 0
    /\ pc' = [pc EXCEPT ![t] = "deinit_unlocked"]
    /\ UNCHANGED <<flash, obj, up, last, model, pend, gcs, losses>>

\* mtb_kvstore_deinit: cy_rtos_deinit_mutex of the copy of the mutex
DeinitDestroy(t) ==
    /\ pc[t] = "deinit_unlocked"
    /\ mutex' = -1
    /\ pc' = [pc EXCEPT ![t] = "idle"]
    /\ UNCHANGED <<flash, obj, up, last, model, pend, gcs, losses>>

NextDeinit ==
    \/ DoInit /\ last.op = "none"
    \/ \E t \in Threads, call \in LockedCalls : Enter(t, call)
    \/ \E t \in Threads, call \in LockedCalls : Acquire(t, call)
    \/ \E t \in Threads, call \in LockedCalls : LockTimeout(t, call)
    \/ \E t \in Threads, data \in Values : up /\ LockedWrite(t, KeyAct, data)
    \/ \E t \in Threads : up /\ LockedDelete(t, KeyAct)
    \/ \E t \in Threads : up /\ LockedRead(t, KeyAct)
    \/ \E t \in Threads : up /\ LockedResetCompact(t)
    \/ \E t \in Threads : up /\ LockedResetFinish(t)
    \/ \E t \in Threads, call \in LockedCalls : FreedCall(t, call)
    \/ \E t \in Threads : DeinitLock(t)
    \/ \E t \in Threads : DeinitFree(t)
    \/ \E t \in Threads : DeinitUnlock(t)
    \/ \E t \in Threads : DeinitDestroy(t)

SpecDeinit == Init /\ [][NextDeinit]_vars

\* C40: under every interleaving, no thread is behind the _mtb_kvstore_lock
\* of mtb_kvstore_write, mtb_kvstore_read, mtb_kvstore_delete or
\* mtb_kvstore_reset, about to use the RAM table or the transaction buffer,
\* once mtb_kvstore_deinit has freed them.
C40_NoUseAfterDeinit ==
    \A t \in Threads : (pc[t] \in LockedCalls /\ UsesBuffers(pc[t])) => up

====
